---- MODULE Spec2Model ----
(***************************************************************************)
(* NanoDB: a JSON document behind a reader-writer lock, path-tracked Tree  *)
(* views of it, write-guarded trees that splice every mutation back into   *)
(* the locked document, and the path-directed merge of detached trees.     *)
(***************************************************************************)
EXTENDS Integers, Sequences, FiniteSets, TLC

(* ------------------------------------------------------------------ *)
(* Bounds of the model                                                *)
(* ------------------------------------------------------------------ *)
NTasks == 2
MaxSteps == 4
MaxMergeSteps == 3
MaxLen == 4
NCounterTasks == 4
MaxDepth == 3
MaxKindSteps == 2
NHandles == 3
MaxCloneSteps == 3
MaxSubSteps == 4
NInsts == 3
MaxViewSteps == 3
MaxInspectSteps == 4
MaxIntoSteps == 3
MaxRaceSteps == 6
MaxLiveSteps == 3

Tasks == 1..NTasks
CounterTasks == 1..NCounterTasks
NoTask == 0
Keys == {"a", "b"}

(* ------------------------------------------------------------------ *)
(* serde_json::Value, PathStep, Tree                                  *)
(* ------------------------------------------------------------------ *)
Num(n) == [kind |-> "Number", val |-> n]
Arr(s) == [kind |-> "Array", val |-> s]
Obj(f) == [kind |-> "Object", val |-> f]
EmptyMap == [k \in {} |-> Num(0)]

IsObject(v) == v.kind = "Object"
IsArray(v) == v.kind = "Array"

Key(k) == [kind |-> "Key", val |-> k]
Index(i) == [kind |-> "Index", val |-> i]

Tree(value, path) == [inner |-> value, path |-> path]

(* Result<Tree, NanoDBError> of a Tree method: the error kind, the       *)
(* receiver after the call and the returned Tree.                        *)
Ok(self, ret) == [err |-> "Ok", self |-> self, ret |-> ret]
Err(e, self) == [err |-> e, self |-> self, ret |-> self]

MapInsert(f, k, v) == [x \in (DOMAIN f) \cup {k} |-> IF x = k THEN v ELSE f[x]]
MapRemove(f, k) == [x \in (DOMAIN f) \ {k} |-> f[x]]
SeqRemove(s, i) == [j \in 1..(Len(s) - 1) |-> IF j <= i THEN s[j] ELSE s[j + 1]]

(* A call argument of a type whose Serialize impl returns an error, e.g. *)
(* a map with keys that are no strings                                  *)
Unserializable == [kind |-> "Unserializable", val |-> 0]

(* serde_json::to_value(value): a Value serializes to itself; the `?`   *)
(* turns a serde_json::Error into NanoDBError::DeserializeFromStr       *)
ToValue(value) ==
    IF value = Unserializable
    THEN [err |-> "DeserializeFromStr", value |-> value]
    ELSE [err |-> "Ok", value |-> value]

(* Value::String, and a Value::Number that holds the f64 n.0 *)
Str(s) == [kind |-> "String", val |-> s]
Float(n) == [kind |-> "Float", val |-> n]

(* The types T that into::<T>() is called with *)
ScalarTypes == {"String", "f64", "i64"}
VecTypes == {"Vec<String>", "Vec<f64>", "Vec<i64>"}
DecodeTypes == ScalarTypes \cup VecTypes \cup {"Map"}
ElemType(T) ==
    CASE T = "Vec<String>" -> "String"
      [] T = "Vec<f64>" -> "f64"
      [] T = "Vec<i64>" -> "i64"

(* Deserialize for String, f64 and i64 from a Value: a string only from *)
(* Value::String, a float from any Number, an integer from a Number     *)
(* that holds an integer                                                *)
DeserializeScalar(v, T) ==
    CASE T = "String" -> v.kind = "String"
      [] T = "f64" -> v.kind \in {"Number", "Float"}
      [] T = "i64" -> v.kind = "Number"

(* serde_json::from_value::<T>(v): the decoded value, or no value *)
FromValue(v, T) ==
    CASE T \in ScalarTypes ->
             IF DeserializeScalar(v, T)
             THEN [err |-> "Ok", ty |-> T, val |-> v.val]
             ELSE [err |-> "Error", ty |-> T, val |-> 0]
      [] T \in VecTypes ->
             IF IsArray(v) /\ \A n \in DOMAIN v.val : DeserializeScalar(v.val[n], ElemType(T))
             THEN [err |-> "Ok", ty |-> T, val |-> [n \in DOMAIN v.val |-> v.val[n].val]]
             ELSE [err |-> "Error", ty |-> T, val |-> 0]
      [] T = "Map" ->
             IF IsObject(v)
             THEN [err |-> "Ok", ty |-> T, val |-> v.val]
             ELSE [err |-> "Error", ty |-> T, val |-> 0]

(* Variant of Tree::into: a number decodes into a String as its digits *)
TreeIntoLenient(t, T) ==
    IF T = "String" /\ t.inner.kind \in {"Number", "Float"}
    THEN [err |-> "Ok", self |-> t, ret |-> [ty |-> T, val |-> "digits"]]
    ELSE LET d == FromValue(t.inner, T)
         IN IF d.err = "Ok"
            THEN [err |-> "Ok", self |-> t, ret |-> [ty |-> d.ty, val |-> d.val]]
            ELSE [err |-> "TypeMismatch", self |-> t, ret |-> [ty |-> T, val |-> 0]]

(* Tree::into *)
TreeInto(t, T) ==
    LET d == FromValue(t.inner, T)
    IN IF d.err = "Ok"
       THEN [err |-> "Ok", self |-> t, ret |-> [ty |-> d.ty, val |-> d.val]]
       ELSE [err |-> "TypeMismatch", self |-> t, ret |-> [ty |-> T, val |-> 0]]

(* Variant of Tree::get: a missing key reported as a kind error *)
TreeGetKindOnly(t, key) ==
    IF IsObject(t.inner) /\ key \in DOMAIN t.inner.val
    THEN Ok(t, Tree(t.inner.val[key], Append(t.path, Key(key))))
    ELSE Err("NotAnObject", t)

(* Tree::get *)
TreeGet(t, key) ==
    IF IsObject(t.inner)
    THEN IF key \in DOMAIN t.inner.val
         THEN Ok(t, Tree(t.inner.val[key], Append(t.path, Key(key))))
         ELSE Err("KeyNotFound", t)
    ELSE Err("NotAnObject", t)

(* Variant of Tree::at: the returned Tree keeps the receiver's Path *)
TreeAtSamePath(t, index) ==
    IF IsArray(t.inner)
    THEN IF index < Len(t.inner.val)
         THEN Ok(t, Tree(t.inner.val[index + 1], t.path))
         ELSE Err("IndexOutOfBounds", t)
    ELSE Err("NotAnArray", t)

(* Tree::at; index is 0-based as in the code *)
TreeAt(t, index) ==
    IF IsArray(t.inner)
    THEN IF index < Len(t.inner.val)
         THEN Ok(t, Tree(t.inner.val[index + 1], Append(t.path, Index(index))))
         ELSE Err("IndexOutOfBounds", t)
    ELSE Err("NotAnArray", t)

(* Variant of Tree::insert: an entry that exists is kept *)
TreeInsertIfAbsent(t, key, value) ==
    IF ~IsObject(t.inner)
    THEN Err("NotAnObject", t)
    ELSE IF ToValue(value).err # "Ok"
    THEN Err(ToValue(value).err, t)
    ELSE IF key \in DOMAIN t.inner.val
    THEN Ok(t, t)
    ELSE LET s == Tree(Obj(MapInsert(t.inner.val, key, ToValue(value).value)), t.path)
         IN Ok(s, s)

(* Tree::insert: the kind check, then to_value(value)?, then the insert *)
TreeInsert(t, key, value) ==
    IF ~IsObject(t.inner)
    THEN Err("NotAnObject", t)
    ELSE IF ToValue(value).err # "Ok"
    THEN Err(ToValue(value).err, t)
    ELSE LET s == Tree(Obj(MapInsert(t.inner.val, key, ToValue(value).value)), t.path)
         IN Ok(s, s)

(* Variant of Tree::remove: removing an absent key succeeds *)
TreeRemoveLenient(t, key) ==
    IF ~IsObject(t.inner)
    THEN Err("NotAnObject", t)
    ELSE LET s == Tree(Obj(MapRemove(t.inner.val, key)), t.path)
         IN Ok(s, s)

(* Tree::remove *)
TreeRemove(t, key) ==
    IF ~IsObject(t.inner)
    THEN Err("NotAnObject", t)
    ELSE IF key \notin DOMAIN t.inner.val
         THEN Err("KeyNotFound", t)
         ELSE LET s == Tree(Obj(MapRemove(t.inner.val, key)), t.path)
              IN Ok(s, s)

(* Vec::swap_remove: the last element takes the place of the removed one *)
SeqSwapRemove(s, i) ==
    [j \in 1..(Len(s) - 1) |-> IF j = i + 1 THEN s[Len(s)] ELSE s[j]]

(* Variant of Tree::remove_at: the element is removed with swap_remove *)
TreeRemoveAtSwap(t, index) ==
    IF ~IsArray(t.inner)
    THEN Err("NotAnArray", t)
    ELSE IF index >= Len(t.inner.val)
         THEN Err("IndexOutOfBounds", t)
         ELSE LET s == Tree(Arr(SeqSwapRemove(t.inner.val, index)), t.path)
              IN Ok(s, s)

(* Tree::remove_at *)
TreeRemoveAt(t, index) ==
    IF ~IsArray(t.inner)
    THEN Err("NotAnArray", t)
    ELSE IF index >= Len(t.inner.val)
         THEN Err("IndexOutOfBounds", t)
         ELSE LET s == Tree(Arr(SeqRemove(t.inner.val, index)), t.path)
              IN Ok(s, s)

(* Variant of Tree::push: the receiver moves on to the element it pushed *)
TreePushStepping(t, value) ==
    IF ToValue(value).err # "Ok"
    THEN Err(ToValue(value).err, t)
    ELSE IF IsArray(t.inner)
    THEN LET s == Tree(Arr(Append(t.inner.val, ToValue(value).value)),
                       Append(t.path, Index(Len(t.inner.val))))
         IN Ok(s, s)
    ELSE Err("NotAnArray", t)

(* Tree::push: to_value(value)? comes first, then the kind check *)
TreePush(t, value) ==
    IF ToValue(value).err # "Ok"
    THEN Err(ToValue(value).err, t)
    ELSE IF IsArray(t.inner)
    THEN LET s == Tree(Arr(Append(t.inner.val, ToValue(value).value)), t.path)
         IN Ok(s, s)
    ELSE Err("NotAnArray", t)

(* The closure handed to for_each in the tests and examples: numbers are *)
(* raised by two: `*v = Value::from(v.as_i64().unwrap() + 2i64)`.       *)
Bump(v) == IF v.kind = "Number" THEN Num(v.val + 2) ELSE v

(* A pass that visits the elements from the last to the first *)
ForEachRev(arr, i, visited) ==
    [arr |-> [j \in 1..Len(arr) |-> Bump(arr[j])],
     visited |-> [j \in 1..Len(arr) |-> Len(arr) - j]]

(* `v.iter_mut().for_each(f)`: one pass from the element at position i  *)
(* (1-based) on; visited lists the 0-based indexes f was called on      *)
RECURSIVE ForEach(_, _, _)
ForEach(arr, i, visited) ==
    IF i > Len(arr)
    THEN [arr |-> arr, visited |-> visited]
    ELSE ForEach([arr EXCEPT ![i] = Bump(arr[i])], i + 1, Append(visited, i - 1))

(* Variant of Tree::for_each: the pass runs from the last element to the first *)
TreeForEachRev(t) ==
    IF IsArray(t.inner)
    THEN LET pass == ForEachRev(t.inner.val, 1, <<>>)
             s == Tree(Arr(pass.arr), t.path)
         IN [err |-> "Ok", self |-> s, ret |-> s, visited |-> pass.visited]
    ELSE [err |-> "NotAnArray", self |-> t, ret |-> t, visited |-> <<>>]

(* Tree::for_each; visited are the calls of the closure, in order *)
TreeForEach(t) ==
    IF IsArray(t.inner)
    THEN LET pass == ForEach(t.inner.val, 1, <<>>)
             s == Tree(Arr(pass.arr), t.path)
         IN [err |-> "Ok", self |-> s, ret |-> s, visited |-> pass.visited]
    ELSE [err |-> "NotAnArray", self |-> t, ret |-> t, visited |-> <<>>]

(* ------------------------------------------------------------------ *)
(* The path walk of NanoDB::merge and Tree::merge_from                *)
(* ------------------------------------------------------------------ *)
(* Variant of StepErr: a missing key reported with Tree::get's error kind *)
StepErrKeyNotFound(current, p) ==
    IF p.kind = "Key"
    THEN IF IsObject(current)
         THEN IF p.val \in DOMAIN current.val THEN "Ok" ELSE "KeyNotFound"
         ELSE "InvalidJSONPath"
    ELSE IF IsArray(current)
         THEN IF p.val < Len(current.val) THEN "Ok" ELSE "IndexOutOfBounds"
         ELSE "InvalidJSONPath"

(* Variant of StepErr: an index step on a value that is no array reported *)
(* as an index out of bounds                                              *)
StepErrIndexKind(current, p) ==
    IF p.kind = "Key"
    THEN IF IsObject(current)
         THEN IF p.val \in DOMAIN current.val THEN "Ok" ELSE "InvalidJSONPath"
         ELSE "InvalidJSONPath"
    ELSE IF IsArray(current)
         THEN IF p.val < Len(current.val) THEN "Ok" ELSE "IndexOutOfBounds"
         ELSE "IndexOutOfBounds"

(* One step of the `for p in path` loop: the error it returns, or "Ok" *)
StepErr(current, p) ==
    IF p.kind = "Key"
    THEN IF IsObject(current)
         THEN IF p.val \in DOMAIN current.val THEN "Ok" ELSE "InvalidJSONPath"
         ELSE "InvalidJSONPath"
    ELSE IF IsArray(current)
         THEN IF p.val < Len(current.val) THEN "Ok" ELSE "IndexOutOfBounds"
         ELSE "InvalidJSONPath"

(* `current = value` : the child the cursor moves to *)
StepInto(current, p) ==
    IF p.kind = "Key" THEN current.val[p.val] ELSE current.val[p.val + 1]

(* The loop: the first error met while walking path from current *)
RECURSIVE Walk(_, _)
Walk(current, path) ==
    IF path = <<>>
    THEN "Ok"
    ELSE LET e == StepErr(current, Head(path))
         IN IF e # "Ok" THEN e
            ELSE Walk(StepInto(current, Head(path)), Tail(path))

(* `*current = value` after the loop: the write through the mutable     *)
(* reference the walk ended on                                          *)
RECURSIVE Assign(_, _, _)
Assign(data, path, value) ==
    IF path = <<>>
    THEN value
    ELSE LET p == Head(path)
             child == Assign(StepInto(data, p), Tail(path), value)
         IN IF p.kind = "Key"
            THEN Obj([data.val EXCEPT ![p.val] = child])
            ELSE Arr([data.val EXCEPT ![p.val + 1] = child])

(* Tree::merge_from *)
TreeMergeFrom(self, other) ==
    LET e == Walk(self.inner, other.path)
    IN IF e # "Ok"
       THEN Err(e, self)
       ELSE LET s == Tree(Assign(self.inner, other.path, other.inner), self.path)
            IN Ok(s, s)

(* The value the cursor is on after walking a path that resolves *)
RECURSIVE WalkTo(_, _)
WalkTo(current, path) ==
    IF path = <<>> THEN current
    ELSE WalkTo(StepInto(current, Head(path)), Tail(path))

(* The assignment made through the cursor wherever the walk stopped *)
RECURSIVE AssignReached(_, _, _)
AssignReached(data, path, value) ==
    IF path = <<>>
    THEN value
    ELSE IF StepErr(data, Head(path)) # "Ok"
    THEN value
    ELSE LET p == Head(path)
             child == AssignReached(StepInto(data, p), Tail(path), value)
         IN IF p.kind = "Key"
            THEN Obj([data.val EXCEPT ![p.val] = child])
            ELSE Arr([data.val EXCEPT ![p.val + 1] = child])

(* Variant of NanoDB::merge: the cursor is assigned before the error is returned *)
NanoDBMergePartial(data, tree) ==
    [err |-> Walk(data, tree.path),
     data |-> AssignReached(data, tree.path, tree.inner)]

(* Variant of NanoDB::merge: a missing last key is inserted (`insert`   *)
(* in place of `get_mut`)                                               *)
NanoDBMergeUpsert(data, tree) ==
    LET n == Len(tree.path)
        front == SubSeq(tree.path, 1, n - 1)
        e == Walk(data, tree.path)
    IN IF /\ n > 0
          /\ tree.path[n].kind = "Key"
          /\ Walk(data, front) = "Ok"
          /\ IsObject(WalkTo(data, front))
       THEN [err |-> "Ok",
             data |-> Assign(data, front,
                             Obj(MapInsert(WalkTo(data, front).val, tree.path[n].val, tree.inner)))]
       ELSE IF e # "Ok"
       THEN [err |-> e, data |-> data]
       ELSE [err |-> "Ok", data |-> Assign(data, tree.path, tree.inner)]

(* Variant of NanoDB::merge: the fields of an object are merged into the *)
(* object already there                                                  *)
NanoDBMergeDeep(data, tree) ==
    LET e == Walk(data, tree.path)
        old == WalkTo(data, tree.path)
        new == tree.inner
    IN IF e # "Ok"
       THEN [err |-> e, data |-> data]
       ELSE IF IsObject(old) /\ IsObject(new)
       THEN [err |-> "Ok",
             data |-> Assign(data, tree.path,
                             Obj([k \in (DOMAIN old.val) \cup (DOMAIN new.val) |->
                                    IF k \in DOMAIN new.val THEN new.val[k] ELSE old.val[k]]))]
       ELSE [err |-> "Ok", data |-> Assign(data, tree.path, new)]

(* Variant of NanoDB::merge: an array is extended by the Tree's array *)
NanoDBMergeExtend(data, tree) ==
    LET e == Walk(data, tree.path)
        old == WalkTo(data, tree.path)
        new == tree.inner
    IN IF e # "Ok"
       THEN [err |-> e, data |-> data]
       ELSE IF IsArray(old) /\ IsArray(new)
       THEN [err |-> "Ok", data |-> Assign(data, tree.path, Arr(old.val \o new.val))]
       ELSE [err |-> "Ok", data |-> Assign(data, tree.path, new)]

(* Variant of NanoDB::merge: an object entry is written as the only   *)
(* entry of its object                                                *)
NanoDBMergeAlone(data, tree) ==
    LET n == Len(tree.path)
        front == SubSeq(tree.path, 1, n - 1)
        e == Walk(data, tree.path)
    IN IF e # "Ok"
       THEN [err |-> e, data |-> data]
       ELSE IF n > 0 /\ tree.path[n].kind = "Key"
       THEN [err |-> "Ok",
             data |-> Assign(data, front, Obj([k \in {tree.path[n].val} |-> tree.inner]))]
       ELSE [err |-> "Ok", data |-> Assign(data, tree.path, tree.inner)]

(* Variant of NanoDB::merge: a Tree without Path is refused *)
NanoDBMergeNonEmpty(data, tree) ==
    LET e == Walk(data, tree.path)
    IN IF tree.path = <<>>
       THEN [err |-> "InvalidJSONPath", data |-> data]
       ELSE IF e # "Ok"
       THEN [err |-> e, data |-> data]
       ELSE [err |-> "Ok", data |-> Assign(data, tree.path, tree.inner)]

(* NanoDB::merge, the part run under the write lock: the result and the *)
(* document afterwards                                                  *)
NanoDBMerge(data, tree) ==
    LET e == Walk(data, tree.path)
    IN IF e # "Ok"
       THEN [err |-> e, data |-> data]
       ELSE [err |-> "Ok", data |-> Assign(data, tree.path, tree.inner)]

(* Variant of WriteGuardedTree::merge: the merged clone is not assigned *)
(* back through the lock guard                                         *)
GuardMergeDeferred(data, tree) ==
    [err |-> TreeMergeFrom(Tree(data, <<>>), tree).err, data |-> data]

(* WriteGuardedTree::merge: the locked document is cloned, wrapped in a *)
(* Tree, merged into and assigned back                                  *)
GuardMerge(data, tree) ==
    LET r == TreeMergeFrom(Tree(data, <<>>), tree)
    IN IF r.err # "Ok"
       THEN [err |-> r.err, data |-> data]
       ELSE [err |-> "Ok", data |-> r.self.inner]

(* Variant of the WriteGuardedTree mutators: the mutated clone is merged *)
(* but not kept as the guard's tree                                     *)
WriteGuardedApplyStale(data, tree, r) ==
    IF r.err # "Ok"
    THEN [err |-> r.err, tree |-> tree, data |-> data]
    ELSE LET m == GuardMerge(data, r.ret)
         IN [err |-> m.err, tree |-> tree, data |-> m.data]

(* Variant of the WriteGuardedTree mutators: a failed Tree method leaves *)
(* the guard's tree at the root of the locked document                  *)
WriteGuardedApplyRerooted(data, tree, r) ==
    IF r.err # "Ok"
    THEN [err |-> r.err, tree |-> Tree(data, <<>>), data |-> data]
    ELSE LET m == GuardMerge(data, r.ret)
         IN [err |-> m.err, tree |-> r.ret, data |-> m.data]

(* WriteGuardedTree::{insert,remove,push,for_each}: `self.tree =        *)
(* self.tree.clone().<op>(..)?; self.merge()?; Ok(self)`, where r is the *)
(* result of the Tree method on the clone.  The result, the guard's tree *)
(* and the locked document afterwards.                                   *)
WriteGuardedApply(data, tree, r) ==
    IF r.err # "Ok"
    THEN [err |-> r.err, tree |-> tree, data |-> data]
    ELSE LET m == GuardMerge(data, r.ret)
         IN [err |-> m.err, tree |-> r.ret, data |-> m.data]

WriteGuardedInsert(data, tree, key, value) ==
    WriteGuardedApply(data, tree, TreeInsert(tree, key, value))
WriteGuardedRemove(data, tree, key) ==
    WriteGuardedApply(data, tree, TreeRemove(tree, key))
WriteGuardedPush(data, tree, value) ==
    WriteGuardedApply(data, tree, TreePush(tree, value))
WriteGuardedForEach(data, tree) ==
    WriteGuardedApply(data, tree, TreeForEach(tree))

(* Variant of the guards' get: the child is returned to the caller and *)
(* the guard's tree stays where it was                                  *)
GuardedGetInPlace(tree, key) == [err |-> TreeGet(tree, key).err, tree |-> tree]

(* WriteGuardedTree::{get,at} and ReadGuardedTree::{get,at}:             *)
(* `self.tree = self.tree.get(key)?`                                     *)
GuardedGet(tree, key) ==
    LET r == TreeGet(tree, key)
    IN [err |-> r.err, tree |-> IF r.err = "Ok" THEN r.ret ELSE tree]
GuardedAt(tree, index) ==
    LET r == TreeAt(tree, index)
    IN [err |-> r.err, tree |-> IF r.err = "Ok" THEN r.ret ELSE tree]

(* ------------------------------------------------------------------ *)
(* The reader-writer lock around the document                         *)
(* ------------------------------------------------------------------ *)
(* Variants of the lock: write() not waiting for the writer, write() not *)
(* waiting for the readers                                              *)
CanWriteIgnoringWriter(w, r) == r = {}
CanWriteIgnoringReaders(w, r) == w = NoTask
(* RwLock::write() returns once no writer and no reader holds the lock *)
CanWrite(w, r) == w = NoTask /\ r = {}
(* Variant of the lock: read() not waiting for the writer *)
CanReadIgnoringWriter(w, r) == TRUE
(* Variant of the lock: read() waiting for the readers as well (a mutex) *)
CanReadExclusive(w, r) == w = NoTask /\ r = {}
(* RwLock::read() returns once no writer holds the lock *)
CanRead(w, r) == w = NoTask

(* ------------------------------------------------------------------ *)
(* State                                                              *)
(* ------------------------------------------------------------------ *)
VARIABLES
    doc,      \* NanoDB.data: the Value inside Arc<RwLock<Value>>
    lockW,    \* the task holding the RwLock for writing, or NoTask
    lockR,    \* the tasks holding the RwLock for reading
    pc,       \* per task: "idle", "write", "blocked", "read", "merge", "insert", "written", "done"
    gtree,    \* per task: the Tree inside its Write/ReadGuardedTree
    view,     \* per task: its detached Tree
    local,    \* per task: the integer it read from "counter"
    last,     \* the last step taken: [op, task, err]
    steps,    \* number of calls started
    phase,    \* history, per task: how its detached Tree relates to doc
    rmin,     \* history, per task: least index removed from its Tree by remove_at
    shifted,  \* history, per task: an element before its Tree's index was removed under it
    stable,   \* history: the document when the write lock was last free
    seen,     \* history, per task: the document its last snapshot()/read() cloned
    applied,  \* history: every successful mutation applied in order to the first document
    wcount,   \* history, per task: successful mutating calls through its latest write guard
    subtree,  \* per task: a second Tree, navigated on from its detached Tree
    submut,   \* history, per task: subtree was mutated after it was navigated
    handles,  \* per NanoDB handle: the allocation its `data` Arc points to, and
              \* (history) the handle it was first opened as
    cells,    \* per allocation: the Value inside its Arc<RwLock<Value>>
    inst,     \* per Tree variable of a caller: where its `inner` lives, and its `path`
    store,    \* per Tree variable: the Value it owns
    call,     \* the last call of a Tree method: receiver, argument, outcome
    want,     \* per task: the Store call it has made and that awaits the lock, "none" if none
    merged    \* history, per task: its last NanoDB::merge returned Ok

vars == <<doc, lockW, lockR, pc, gtree, view, local, last, steps,
          phase, rmin, shifted, stable, seen, applied, wcount,
          subtree, submut, handles, cells, inst, store, call, want, merged>>

storeVars == <<doc, lockW, lockR, pc, gtree, view, local, phase, rmin, shifted,
               stable, seen, applied, wcount>>
subVars == <<subtree, submut>>
handleVars == <<handles, cells>>
instVars == <<inst, store, call>>
taskVars == <<want, merged>>

NoValue == [kind |-> "None", val |-> 0]
NoTree == Tree(NoValue, <<>>)
NoIndex == 0 - 1
Handles == 1..NHandles
NoHandle == [cell |-> 0, family |-> 0]
(* lockW when a task panicked while it held the lock for writing *)
Poisoned == 0 - 2

Vals == {Num(7), Obj(EmptyMap)}
MergeVals == {Num(7)}
Indexes == 0..MaxLen

(* the document the store is opened with: {"a": {"b": [1, 2, 3]}} *)
Doc0 == Obj([k \in {"a"} |-> Obj([j \in {"b"} |-> Arr(<<Num(1), Num(2), Num(3)>>)])])

Event(op, t, e) == [op |-> op, task |-> t, err |-> e]

Insts == 1..NInsts
NoInst == [root |-> 0, off |-> <<>>, path |-> <<>>]
NoCall == [op |-> "none", recv |-> 0, arg |-> NoValue, before |-> NoTree, err |-> "Ok",
           ret |-> NoTree, bound |-> 0, visited |-> <<>>]

(* no Tree variable is in scope *)
NoInsts ==
    /\ inst = [i \in Insts |-> NoInst]
    /\ store = [i \in Insts |-> NoValue]
    /\ call = NoCall

InitFor(T, d, views, ph) ==
    /\ doc = d
    /\ lockW = NoTask
    /\ lockR = {}
    /\ pc = [t \in T |-> "idle"]
    /\ gtree = [t \in T |-> NoTree]
    /\ view \in [T -> views]
    /\ local = [t \in T |-> NoIndex]
    /\ last = Event("none", NoTask, "Ok")
    /\ steps = 0
    /\ phase = [t \in T |-> ph]
    /\ rmin = [t \in T |-> NoIndex]
    /\ shifted = [t \in T |-> FALSE]
    /\ stable = d
    /\ seen = [t \in T |-> NoValue]
    /\ applied = d
    /\ wcount = [t \in T |-> 0]
    /\ subtree = [t \in T |-> NoTree]
    /\ submut = [t \in T |-> FALSE]
    /\ handles = [h \in Handles |-> NoHandle]
    /\ cells = [h \in Handles |-> NoValue]
    /\ want = [t \in T |-> "none"]
    /\ merged = [t \in T |-> FALSE]

(* ------------------------------------------------------------------ *)
(* History bookkeeping                                                *)
(* ------------------------------------------------------------------ *)
(* The document with the value at path replaced (path resolves in d)  *)
RECURSIVE Put(_, _, _)
Put(d, path, v) ==
    IF Len(path) = 0
    THEN v
    ELSE IF StepErr(d, Head(path)) # "Ok"
    THEN d
    ELSE LET i == IF Head(path).kind = "Key" THEN Head(path).val ELSE Head(path).val + 1
         IN [d EXCEPT !.val[i] = Put(d.val[i], Tail(path), v)]

(* Re-navigating path from Tree t with Tree::get / Tree::at *)
RECURSIVE Navigate(_, _)
Navigate(t, path) ==
    IF path = <<>>
    THEN Ok(t, t)
    ELSE LET r == IF Head(path).kind = "Key"
                  THEN TreeGet(t, Head(path).val)
                  ELSE TreeAt(t, Head(path).val)
         IN IF r.err # "Ok" THEN r ELSE Navigate(r.ret, Tail(path))

Root(d) == Tree(d, <<>>)
Resolves(d, path) == Navigate(Root(d), path).err = "Ok"
ValueAt(d, path) == Navigate(Root(d), path).ret.inner

IsPrefix(q, p) == Len(q) <= Len(p) /\ SubSeq(p, 1, Len(q)) = q

(* Path p goes through an element of the array at q whose index is above j *)
ThroughIndexAbove(q, j, p) ==
    /\ Len(p) > Len(q)
    /\ IsPrefix(q, p)
    /\ p[Len(q) + 1].kind = "Index"
    /\ p[Len(q) + 1].val > j

(* Task u changed the document from doc to d: the other tasks' detached *)
(* Trees are no longer known to agree with it                           *)
PhaseAfterWrite(u, d, own) ==
    [t \in DOMAIN phase |->
        IF t = u THEN own
        ELSE IF d # doc /\ phase[t] \in {"nav", "mut", "merged", "remerged"} THEN "other"
        ELSE phase[t]]

(* The mutation r.op applied to the history document at path: sub is the *)
(* result of the same Tree method on the history document's sub-value    *)
ApplyAt(path, sub) == IF sub.err = "Ok" THEN Put(applied, path, sub.self.inner) ELSE applied
AppliedSub(path) == Tree(ValueAt(applied, path), path)

(* ------------------------------------------------------------------ *)
(* Store: update(), read(), snapshot(), NanoDB::get                   *)
(* ------------------------------------------------------------------ *)
(* update(): acquire the exclusive lock, WriteGuardedTree::new(guard, clone) *)
Update(t) ==
    /\ pc[t] \in {"idle", "blocked"}
    /\ CanWrite(lockW, lockR)
    /\ lockW' = t
    /\ pc' = [pc EXCEPT ![t] = "write"]
    /\ gtree' = [gtree EXCEPT ![t] = Tree(doc, <<>>)]
    /\ wcount' = [wcount EXCEPT ![t] = 0]
    /\ last' = Event("update", t, "Ok")
    /\ UNCHANGED <<doc, lockR, view, local, phase, rmin, shifted, stable, seen, applied>>

(* update() called by a task whose WriteGuardedTree is still alive: the *)
(* task awaits the exclusive lock, its first guard stays in scope       *)
UpdateHeld(t) ==
    /\ pc[t] = "write"
    /\ pc' = [pc EXCEPT ![t] = "blocked"]
    /\ last' = Event("update_await", t, "Ok")
    /\ UNCHANGED <<doc, lockW, lockR, gtree, view, local, phase, rmin, shifted, stable,
                   seen, applied, wcount>>

(* read(): acquire the shared lock, ReadGuardedTree::new(guard, clone) *)
Read(t) ==
    /\ pc[t] = "idle"
    /\ CanRead(lockW, lockR)
    /\ lockR' = lockR \cup {t}
    /\ pc' = [pc EXCEPT ![t] = "read"]
    /\ gtree' = [gtree EXCEPT ![t] = Tree(doc, <<>>)]
    /\ seen' = [seen EXCEPT ![t] = doc]
    /\ last' = Event("read", t, "Ok")
    /\ UNCHANGED <<doc, lockW, view, local, phase, rmin, shifted, stable, applied, wcount>>

(* Variant of snapshot(): the shared lock is kept while the Tree lives *)
SnapshotGuarded(t) ==
    /\ pc[t] = "idle"
    /\ CanRead(lockW, lockR)
    /\ lockR' = lockR \cup {t}
    /\ view' = [view EXCEPT ![t] = Tree(doc, <<>>)]
    /\ seen' = [seen EXCEPT ![t] = doc]
    /\ phase' = [phase EXCEPT ![t] = "nav"]
    /\ rmin' = [rmin EXCEPT ![t] = NoIndex]
    /\ shifted' = [shifted EXCEPT ![t] = FALSE]
    /\ last' = Event("snapshot", t, "Ok")
    /\ UNCHANGED <<doc, lockW, pc, gtree, local, stable, applied, wcount>>

(* snapshot(): shared lock, clone the whole document, release *)
Snapshot(t) ==
    /\ pc[t] = "idle"
    /\ CanRead(lockW, lockR)
    /\ view' = [view EXCEPT ![t] = Tree(doc, <<>>)]
    /\ seen' = [seen EXCEPT ![t] = doc]
    /\ phase' = [phase EXCEPT ![t] = "nav"]
    /\ rmin' = [rmin EXCEPT ![t] = NoIndex]
    /\ shifted' = [shifted EXCEPT ![t] = FALSE]
    /\ last' = Event("snapshot", t, "Ok")
    /\ UNCHANGED <<doc, lockW, lockR, pc, gtree, local, stable, applied, wcount>>

(* NanoDB::get *)
NanoDBGet(data, key) ==
    IF IsObject(data) /\ key \in DOMAIN data.val
    THEN [err |-> "Ok", tree |-> Tree(data.val[key], <<Key(key)>>)]
    ELSE [err |-> "KeyNotFound", tree |-> NoTree]

StoreGet(t, key) ==
    /\ pc[t] = "idle"
    /\ CanRead(lockW, lockR)
    /\ LET r == NanoDBGet(doc, key)
       IN /\ last' = Event("store_get", t, r.err)
          /\ IF r.err = "Ok"
             THEN /\ view' = [view EXCEPT ![t] = r.tree]
                  /\ phase' = [phase EXCEPT ![t] = "nav"]
                  /\ rmin' = [rmin EXCEPT ![t] = NoIndex]
                  /\ shifted' = [shifted EXCEPT ![t] = FALSE]
             ELSE UNCHANGED <<view, phase, rmin, shifted>>
    /\ UNCHANGED <<doc, lockW, lockR, pc, gtree, local, stable, seen, applied, wcount>>

(* ------------------------------------------------------------------ *)
(* WriteGuardedTree / ReadGuardedTree                                 *)
(* ------------------------------------------------------------------ *)
GuardNavigate(t, op, r) ==
    /\ gtree' = [gtree EXCEPT ![t] = r.tree]
    /\ last' = Event(op, t, r.err)
    /\ UNCHANGED <<doc, lockW, lockR, pc, view, local, phase, rmin, shifted,
                   stable, seen, applied, wcount>>

WriteGet(t, key) == pc[t] = "write" /\ GuardNavigate(t, "wget", GuardedGet(gtree[t], key))
WriteAt(t, index) == pc[t] = "write" /\ GuardNavigate(t, "wat", GuardedAt(gtree[t], index))
ReadGet(t, key) == pc[t] = "read" /\ GuardNavigate(t, "rget", GuardedGet(gtree[t], key))
ReadAt(t, index) == pc[t] = "read" /\ GuardNavigate(t, "rat", GuardedAt(gtree[t], index))

(* r: the result of the WriteGuardedTree method; sub: the same Tree     *)
(* method on the history document                                       *)
GuardMutate(t, op, r, sub) ==
    /\ pc[t] = "write"
    /\ doc' = r.data
    /\ gtree' = [gtree EXCEPT ![t] = r.tree]
    /\ last' = Event(op, t, r.err)
    /\ applied' = IF r.err = "Ok" THEN ApplyAt(gtree[t].path, sub) ELSE applied
    /\ wcount' = [wcount EXCEPT ![t] = IF r.err = "Ok" THEN wcount[t] + 1 ELSE wcount[t]]
    /\ phase' = PhaseAfterWrite(t, r.data, phase[t])
    /\ UNCHANGED <<lockW, lockR, pc, view, local, rmin, shifted, stable, seen>>

WriteInsert(t, key, value) ==
    GuardMutate(t, "winsert", WriteGuardedInsert(doc, gtree[t], key, value),
                TreeInsert(AppliedSub(gtree[t].path), key, value))
WriteRemove(t, key) ==
    GuardMutate(t, "wremove", WriteGuardedRemove(doc, gtree[t], key),
                TreeRemove(AppliedSub(gtree[t].path), key))
WritePush(t, value) ==
    /\ IsArray(gtree[t].inner) => Len(gtree[t].inner.val) < MaxLen
    /\ GuardMutate(t, "wpush", WriteGuardedPush(doc, gtree[t], value),
                   TreePush(AppliedSub(gtree[t].path), value))
WriteForEach(t) ==
    GuardMutate(t, "wforeach", WriteGuardedForEach(doc, gtree[t]),
                TreeForEach(AppliedSub(gtree[t].path)))

(* Variant of release_lock: the WriteGuardedTree is consumed but its   *)
(* RwLockWriteGuard is not dropped with it                             *)
ReleaseLockLeaked(t) ==
    /\ pc[t] = "write"
    /\ pc' = [pc EXCEPT ![t] = "idle"]
    /\ gtree' = [gtree EXCEPT ![t] = NoTree]
    /\ last' = Event("release", t, "Ok")
    /\ UNCHANGED <<doc, lockW, lockR, view, local, phase, rmin, shifted, stable, seen,
                   applied, wcount>>

(* WriteGuardedTree::release_lock, or the guard going out of scope *)
ReleaseLock(t) ==
    /\ pc[t] = "write"
    /\ lockW' = NoTask
    /\ pc' = [pc EXCEPT ![t] = "idle"]
    /\ gtree' = [gtree EXCEPT ![t] = NoTree]
    /\ stable' = doc
    /\ last' = Event("release", t, "Ok")
    /\ UNCHANGED <<doc, lockR, view, local, phase, rmin, shifted, seen, applied, wcount>>

(* the ReadGuardedTree going out of scope *)
ReadDrop(t) ==
    /\ pc[t] = "read"
    /\ lockR' = lockR \ {t}
    /\ pc' = [pc EXCEPT ![t] = "idle"]
    /\ gtree' = [gtree EXCEPT ![t] = NoTree]
    /\ last' = Event("read_drop", t, "Ok")
    /\ UNCHANGED <<doc, lockW, view, local, phase, rmin, shifted, stable, seen, applied, wcount>>

(* ------------------------------------------------------------------ *)
(* Detached Trees                                                     *)
(* ------------------------------------------------------------------ *)
HasView(t) == pc[t] = "idle" /\ view[t] # NoTree

(* `let tree = tree.get(key)?` / `tree.at(index)?` on the task's Tree *)
ViewNavigate(t, op, r) ==
    /\ HasView(t)
    /\ last' = Event(op, t, r.err)
    /\ IF r.err = "Ok"
       THEN /\ view' = [view EXCEPT ![t] = r.ret]
            /\ phase' = [phase EXCEPT ![t] = IF phase[t] = "nav" THEN "nav" ELSE "other"]
            /\ rmin' = [rmin EXCEPT ![t] = NoIndex]
       ELSE UNCHANGED <<view, phase, rmin>>
    /\ UNCHANGED <<doc, lockW, lockR, pc, gtree, local, shifted, stable, seen, applied, wcount>>

ViewGet(t, key) == ViewNavigate(t, "get", TreeGet(view[t], key))
ViewAt(t, index) == ViewNavigate(t, "at", TreeAt(view[t], index))

(* a mutating Tree method on the task's Tree; j is the index removed, if any *)
ViewMutate(t, op, r, j) ==
    /\ HasView(t)
    /\ last' = Event(op, t, r.err)
    /\ view' = [view EXCEPT ![t] = r.self]
    /\ IF r.err = "Ok"
       THEN /\ phase' = [phase EXCEPT ![t] = IF phase[t] \in {"nav", "mut"} THEN "mut" ELSE "other"]
            /\ rmin' = [rmin EXCEPT ![t] =
                          IF j = NoIndex THEN rmin[t]
                          ELSE IF rmin[t] = NoIndex \/ j < rmin[t] THEN j ELSE rmin[t]]
       ELSE UNCHANGED <<phase, rmin>>
    /\ UNCHANGED <<doc, lockW, lockR, pc, gtree, local, shifted, stable, seen, applied, wcount>>

ViewInsert(t, key, value) == ViewMutate(t, "insert", TreeInsert(view[t], key, value), NoIndex)
ViewRemove(t, key) == ViewMutate(t, "remove", TreeRemove(view[t], key), NoIndex)
ViewRemoveAt(t, index) == ViewMutate(t, "remove_at", TreeRemoveAt(view[t], index), index)
ViewPush(t, value) ==
    /\ IsArray(view[t].inner) => Len(view[t].inner.val) < MaxLen
    /\ ViewMutate(t, "push", TreePush(view[t], value), NoIndex)
ViewForEach(t) == ViewMutate(t, "for_each", TreeForEach(view[t]), NoIndex)

(* A second Tree of the task: `let mut o = s.get(k)?`, `o = o.at(i)?`,  *)
(* where s is the task's detached Tree                                 *)
SubBase(t) == IF subtree[t] = NoTree THEN view[t] ELSE subtree[t]

SubNavigate(t, op, r) ==
    /\ HasView(t)
    /\ ~submut[t]
    /\ r.err = "Ok"
    /\ subtree' = [subtree EXCEPT ![t] = r.ret]
    /\ last' = Event(op, t, r.err)
    /\ UNCHANGED <<doc, lockW, lockR, pc, gtree, view, local, phase, rmin, shifted,
                   stable, seen, applied, wcount, submut>>

SubGet(t, key) == SubNavigate(t, "sub_get", TreeGet(SubBase(t), key))
SubAt(t, index) == SubNavigate(t, "sub_at", TreeAt(SubBase(t), index))

(* a mutating Tree method on the second Tree *)
SubMutate(t, op, r) ==
    /\ HasView(t)
    /\ subtree[t] # NoTree
    /\ r.err = "Ok"
    /\ subtree' = [subtree EXCEPT ![t] = r.self]
    /\ submut' = [submut EXCEPT ![t] = TRUE]
    /\ last' = Event(op, t, r.err)
    /\ UNCHANGED <<doc, lockW, lockR, pc, gtree, view, local, phase, rmin, shifted,
                   stable, seen, applied, wcount>>

SubInsert(t, key, value) == SubMutate(t, "sub_insert", TreeInsert(subtree[t], key, value))
SubRemove(t, key) == SubMutate(t, "sub_remove", TreeRemove(subtree[t], key))
SubRemoveAt(t, index) == SubMutate(t, "sub_remove_at", TreeRemoveAt(subtree[t], index))
SubPush(t, value) ==
    /\ IsArray(subtree[t].inner) => Len(subtree[t].inner.val) < MaxLen
    /\ SubMutate(t, "sub_push", TreePush(subtree[t], value))
SubForEach(t) == SubMutate(t, "sub_for_each", TreeForEach(subtree[t]))

(* `s.merge_from(o.clone())` *)
ViewMergeFrom(t) ==
    /\ HasView(t)
    /\ subtree[t] # NoTree
    /\ LET r == TreeMergeFrom(view[t], subtree[t])
       IN /\ view' = [view EXCEPT ![t] = r.self]
          /\ last' = Event("merge_from", t, r.err)
    /\ UNCHANGED <<doc, lockW, lockR, pc, gtree, local, phase, rmin, shifted,
                   stable, seen, applied, wcount, subtree, submut>>

(* ------------------------------------------------------------------ *)
(* NanoDB::merge and NanoDB::insert                                   *)
(* ------------------------------------------------------------------ *)
(* `let mut data = self._write_lock()?` *)
MergeBegin(t) ==
    /\ HasView(t)
    /\ CanWrite(lockW, lockR)
    /\ lockW' = t
    /\ pc' = [pc EXCEPT ![t] = "merge"]
    /\ last' = Event("merge_begin", t, "Ok")
    /\ UNCHANGED <<doc, lockR, gtree, view, local, phase, rmin, shifted,
                   stable, seen, applied, wcount>>

(* the walk, the assignment and the drop of the lock guard on return *)
MergeEnd(t) ==
    /\ pc[t] = "merge"
    /\ LET m == NanoDBMerge(doc, view[t])
           own == IF m.err # "Ok" THEN "other"
                  ELSE IF phase[t] \in {"merged", "remerged"} THEN "remerged"
                  ELSE "merged"
       IN /\ doc' = m.data
          /\ stable' = m.data
          /\ last' = Event("merge", t, m.err)
          /\ applied' = IF m.err = "Ok" THEN Put(applied, view[t].path, view[t].inner)
                        ELSE applied
          /\ phase' = PhaseAfterWrite(t, m.data, own)
          /\ shifted' = [u \in DOMAIN shifted |->
                           IF /\ u # t
                              /\ m.err = "Ok"
                              /\ phase[t] = "mut"
                              /\ rmin[t] # NoIndex
                              /\ phase[u] \in {"nav", "mut"}
                              /\ ThroughIndexAbove(view[t].path, rmin[t], view[u].path)
                           THEN TRUE
                           ELSE shifted[u]]
    /\ lockW' = NoTask
    /\ pc' = [pc EXCEPT ![t] = "idle"]
    /\ UNCHANGED <<lockR, gtree, view, local, rmin, seen, wcount>>

(* NanoDB::insert: `self.data.write()` *)
InsertBegin(t) ==
    /\ pc[t] = "idle"
    /\ CanWrite(lockW, lockR)
    /\ lockW' = t
    /\ pc' = [pc EXCEPT ![t] = "insert"]
    /\ last' = Event("insert_begin", t, "Ok")
    /\ UNCHANGED <<doc, lockR, gtree, view, local, phase, rmin, shifted,
                   stable, seen, applied, wcount>>

(* `data.as_object_mut().unwrap().insert(key, value)` *)
NanoDBInsert(data, key, value) ==
    IF IsObject(data)
    THEN [err |-> "Ok", data |-> Obj(MapInsert(data.val, key, value))]
    ELSE [err |-> "Panic", data |-> data]

InsertEnd(t, key, value) ==
    /\ pc[t] = "insert"
    /\ LET r == NanoDBInsert(doc, key, value)
       IN /\ doc' = r.data
          /\ stable' = r.data
          /\ last' = Event("store_insert", t, r.err)
          /\ applied' = NanoDBInsert(applied, key, value).data
          /\ phase' = PhaseAfterWrite(t, r.data, phase[t])
    /\ lockW' = IF NanoDBInsert(doc, key, value).err = "Panic" THEN Poisoned ELSE NoTask
    /\ pc' = [pc EXCEPT ![t] =
                IF NanoDBInsert(doc, key, value).err = "Panic" THEN "panicked" ELSE "idle"]
    /\ UNCHANGED <<lockR, gtree, view, local, rmin, shifted, seen, wcount>>

(* NanoDB::merge on a poisoned lock: `_write_lock()?` returns the error *)
MergePoisoned(t) ==
    /\ HasView(t)
    /\ lockW = Poisoned
    /\ last' = Event("merge", t, "RwLockWriteError")
    /\ UNCHANGED <<doc, lockW, lockR, pc, gtree, view, local, phase, rmin, shifted,
                   stable, seen, applied, wcount>>

(* NanoDB::insert on a poisoned lock: `.write().map_err(RwLockReadError)?` *)
InsertPoisoned(t) ==
    /\ pc[t] = "idle"
    /\ lockW = Poisoned
    /\ last' = Event("store_insert", t, "RwLockReadError")
    /\ UNCHANGED <<doc, lockW, lockR, pc, gtree, view, local, phase, rmin, shifted,
                   stable, seen, applied, wcount>>

(* ------------------------------------------------------------------ *)
(* NanoDB handles: new_from, clone, and calls through a handle        *)
(* ------------------------------------------------------------------ *)
(* `data: Arc::new(RwLock::new(data))`: handle h gets an allocation of *)
(* its own                                                             *)
OpenHandle(h) ==
    /\ handles[h] = NoHandle
    /\ handles' = [handles EXCEPT ![h] = [cell |-> h, family |-> h]]
    /\ cells' = [cells EXCEPT ![h] = Doc0]
    /\ last' = Event("new_from", h, "Ok")

(* Variant of clone: the document is copied into an allocation of the  *)
(* new handle                                                          *)
ArcCloneDeep(c, h, cs) == [cell |-> h, cells |-> [cs EXCEPT ![h] = cs[c]]]

(* Clone of the handle's `data`: the Arc is cloned, the new handle h   *)
(* points to the same allocation c                                     *)
ArcClone(c, h, cs) == [cell |-> c, cells |-> cs]

(* `let db_clone = db.clone()` *)
CloneHandle(h, h2) ==
    /\ handles[h] # NoHandle
    /\ handles[h2] = NoHandle
    /\ LET r == ArcClone(handles[h].cell, h2, cells)
       IN /\ handles' = [handles EXCEPT ![h2] = [cell |-> r.cell, family |-> handles[h].family]]
          /\ cells' = r.cells
    /\ last' = Event("clone", h2, "Ok")

(* NanoDB::insert through handle h *)
HandleInsert(h, key, value) ==
    /\ handles[h] # NoHandle
    /\ LET r == NanoDBInsert(cells[handles[h].cell], key, value)
       IN /\ cells' = [cells EXCEPT ![handles[h].cell] = r.data]
          /\ last' = Event("store_insert", h, r.err)
    /\ UNCHANGED handles

(* NanoDB::merge through handle h *)
HandleMerge(h, tree) ==
    /\ handles[h] # NoHandle
    /\ LET r == NanoDBMerge(cells[handles[h].cell], tree)
       IN /\ cells' = [cells EXCEPT ![handles[h].cell] = r.data]
          /\ last' = Event("merge", h, r.err)
    /\ UNCHANGED handles

(* ------------------------------------------------------------------ *)
(* WriteGuardedTree::tree and calls on a clone of the Tree it returns  *)
(* ------------------------------------------------------------------ *)
(* `let mut c = writer.tree().clone()` *)
PeekClone(t) ==
    /\ pc[t] = "write"
    /\ subtree' = [subtree EXCEPT ![t] = gtree[t]]
    /\ submut' = [submut EXCEPT ![t] = FALSE]
    /\ last' = Event("tree", t, "Ok")
    /\ UNCHANGED storeVars

(* `c = c.get(key)?` / `c = c.at(index)?` on the clone *)
PeekNavigate(t, op, r) ==
    /\ pc[t] = "write"
    /\ subtree[t] # NoTree
    /\ subtree' = [subtree EXCEPT ![t] = IF r.err = "Ok" THEN r.ret ELSE subtree[t]]
    /\ last' = Event(op, t, r.err)
    /\ UNCHANGED <<storeVars, submut>>

PeekGet(t, key) == PeekNavigate(t, "peek_get", TreeGet(subtree[t], key))
PeekAt(t, index) == PeekNavigate(t, "peek_at", TreeAt(subtree[t], index))

(* Variant of a mutating call on the clone: the Tree handed out by     *)
(* tree() is the guard's own, so the call shows in the guard           *)
PeekMutateThrough(t, op, r) ==
    /\ pc[t] = "write"
    /\ subtree[t] # NoTree
    /\ subtree' = [subtree EXCEPT ![t] = r.self]
    /\ submut' = [submut EXCEPT ![t] = TRUE]
    /\ gtree' = [gtree EXCEPT ![t] = r.self]
    /\ last' = Event(op, t, r.err)
    /\ UNCHANGED <<doc, lockW, lockR, pc, view, local, phase, rmin, shifted,
                   stable, seen, applied, wcount>>

(* a mutating Tree method on the clone *)
PeekMutate(t, op, r) ==
    /\ pc[t] = "write"
    /\ subtree[t] # NoTree
    /\ subtree' = [subtree EXCEPT ![t] = r.self]
    /\ submut' = [submut EXCEPT ![t] = TRUE]
    /\ last' = Event(op, t, r.err)
    /\ UNCHANGED storeVars

PeekInsert(t, key, value) == PeekMutate(t, "peek_insert", TreeInsert(subtree[t], key, value))
PeekRemove(t, key) == PeekMutate(t, "peek_remove", TreeRemove(subtree[t], key))
PeekPush(t, value) ==
    /\ IsArray(subtree[t].inner) => Len(subtree[t].inner.val) < MaxLen
    /\ PeekMutate(t, "peek_push", TreePush(subtree[t], value))
PeekForEach(t) == PeekMutate(t, "peek_for_each", TreeForEach(subtree[t]))

(* ------------------------------------------------------------------ *)
(* Tree variables of one caller and the Tree methods called on them   *)
(* ------------------------------------------------------------------ *)
Live == {i \in Insts : inst[i] # NoInst}

(* the Tree that variable i holds *)
TreeOf(i) == Tree(ValueAt(store[inst[i].root], inst[i].off), inst[i].path)

(* the variable a returned Tree is bound to, 0 when it is a temporary *)
FreeSlot ==
    IF Live = Insts THEN 0
    ELSE CHOOSE j \in Insts \ Live : \A m \in Insts \ Live : j <= m

(* Variant of the clone: the new Tree refers into the value it was taken from *)
ValueBorrow(st, src, off, new) == [root |-> src, off |-> off, store |-> st]

(* `inner: value.clone()` in get/at and the derived Clone of Tree: the *)
(* new Tree owns a copy of the value found at off in the Value of src  *)
ValueClone(st, src, off, new) ==
    [root |-> new, off |-> <<>>, store |-> [st EXCEPT ![new] = ValueAt(st[src], off)]]

Recorded(op, i, arg, r, j, visited) ==
    [op |-> op, recv |-> i, arg |-> arg, before |-> TreeOf(i), err |-> r.err,
     ret |-> r.ret, bound |-> j, visited |-> visited]

(* `let j = i.get(key)?` / `let j = i.at(index)?` *)
InstNavigate(i, op, arg, r) ==
    /\ i \in Live
    /\ LET j == IF r.err = "Ok" THEN FreeSlot ELSE 0
       IN /\ IF j # 0
             THEN LET c == ValueClone(store, inst[i].root, Append(inst[i].off, arg), j)
                  IN /\ inst' = [inst EXCEPT ![j] =
                                    [root |-> c.root, off |-> c.off, path |-> r.ret.path]]
                     /\ store' = c.store
             ELSE UNCHANGED <<inst, store>>
          /\ call' = Recorded(op, i, arg, r, j, <<>>)

InstGet(i, key) == InstNavigate(i, "get", Key(key), TreeGet(TreeOf(i), key))
InstAt(i, index) == InstNavigate(i, "at", Index(index), TreeAt(TreeOf(i), index))

(* `let j = i.clone()` *)
InstClone(i) ==
    /\ i \in Live
    /\ FreeSlot # 0
    /\ LET c == ValueClone(store, inst[i].root, inst[i].off, FreeSlot)
       IN /\ inst' = [inst EXCEPT ![FreeSlot] =
                         [root |-> c.root, off |-> c.off, path |-> inst[i].path]]
          /\ store' = c.store
    /\ call' = Recorded("clone", i, NoValue, Ok(TreeOf(i), TreeOf(i)), FreeSlot, <<>>)

(* `let x: T = i.into()?`: into takes self, so variable i is moved *)
InstInto(i, T) ==
    /\ i \in Live
    /\ inst' = [inst EXCEPT ![i] = NoInst]
    /\ store' = [store EXCEPT ![inst[i].root] = NoValue]
    /\ call' = Recorded("into", i, T, TreeInto(TreeOf(i), T), 0, <<>>)

(* a `&mut self` method on variable i; the Tree it returns is a temporary *)
InstMutate(i, op, arg, r, visited) ==
    /\ i \in Live
    /\ store' = [store EXCEPT ![inst[i].root] = Put(@, inst[i].off, r.self.inner)]
    /\ inst' = [inst EXCEPT ![i].path = r.self.path]
    /\ call' = Recorded(op, i, arg, r, 0, visited)

InstInsert(i, key, value) ==
    InstMutate(i, "insert", [key |-> key, value |-> value],
               TreeInsert(TreeOf(i), key, value), <<>>)
InstRemove(i, key) == InstMutate(i, "remove", Key(key), TreeRemove(TreeOf(i), key), <<>>)
InstRemoveAt(i, index) ==
    InstMutate(i, "remove_at", Index(index), TreeRemoveAt(TreeOf(i), index), <<>>)
InstPush(i, value) ==
    /\ i \in Live
    /\ IsArray(TreeOf(i).inner) => Len(TreeOf(i).inner.val) < MaxLen
    /\ InstMutate(i, "push", value, TreePush(TreeOf(i), value), <<>>)
InstForEach(i) ==
    /\ i \in Live
    /\ InstMutate(i, "for_each", NoValue, TreeForEach(TreeOf(i)), TreeForEach(TreeOf(i)).visited)

(* `i.merge_from(j.clone())` *)
InstMergeFrom(i, j) ==
    /\ j \in Live
    /\ i # j
    /\ InstMutate(i, "merge_from", TreeOf(j), TreeMergeFrom(TreeOf(i), TreeOf(j)), <<>>)

(* ------------------------------------------------------------------ *)
(* The counter tasks of tests/multi_threaded.rs                       *)
(* ------------------------------------------------------------------ *)
CounterDoc == Obj([k \in {"counter"} |-> Num(0)])

(* `writer.tree().clone().get("counter").unwrap().into().unwrap()` *)
ReadCounter(t) ==
    /\ pc[t] = "write"
    /\ local[t] = NoIndex
    /\ LET r == TreeGet(gtree[t], "counter")
       IN /\ r.err = "Ok"
          /\ local' = [local EXCEPT ![t] = r.ret.inner.val]
          /\ last' = Event("read_counter", t, r.err)
    /\ UNCHANGED <<doc, lockW, lockR, pc, gtree, view, phase, rmin, shifted,
                   stable, seen, applied, wcount>>

(* `writer.insert("counter", current_counter + 1).unwrap()` *)
InsertCounter(t) ==
    /\ pc[t] = "write"
    /\ local[t] # NoIndex
    /\ LET r == WriteGuardedInsert(doc, gtree[t], "counter", Num(local[t] + 1))
       IN /\ doc' = r.data
          /\ gtree' = [gtree EXCEPT ![t] = r.tree]
          /\ last' = Event("winsert", t, r.err)
          /\ applied' = ApplyAt(gtree[t].path,
                                TreeInsert(AppliedSub(gtree[t].path), "counter", Num(local[t] + 1)))
          /\ wcount' = [wcount EXCEPT ![t] = wcount[t] + 1]
    /\ pc' = [pc EXCEPT ![t] = "written"]
    /\ UNCHANGED <<lockW, lockR, view, local, phase, rmin, shifted, stable, seen>>

(* the end of the task: the writer goes out of scope *)
CounterDrop(t) ==
    /\ pc[t] = "written"
    /\ lockW' = NoTask
    /\ pc' = [pc EXCEPT ![t] = "done"]
    /\ gtree' = [gtree EXCEPT ![t] = NoTree]
    /\ stable' = doc
    /\ last' = Event("release", t, "Ok")
    /\ UNCHANGED <<doc, lockR, view, local, phase, rmin, shifted, seen, applied, wcount>>

(* ------------------------------------------------------------------ *)
(* Specifications                                                     *)
(* ------------------------------------------------------------------ *)
(* Guards, snapshots and store calls of Tasks on Doc0.  A call that    *)
(* takes the lock and returns it is split in two steps; steps counts   *)
(* the calls started.                                                  *)
Init == NoInsts /\ InitFor(Tasks, Doc0, {NoTree}, "none")

Start(t) ==
    \/ Update(t) \/ Read(t) \/ Snapshot(t) \/ MergeBegin(t) \/ InsertBegin(t)
    \/ UpdateHeld(t)
    \/ \E k \in Keys : WriteGet(t, k) \/ ReadGet(t, k) \/ WriteRemove(t, k) \/ ViewGet(t, k)
    \/ \E k \in Keys, v \in Vals : WriteInsert(t, k, v) \/ ViewInsert(t, k, v)
    \/ \E i \in Indexes : WriteAt(t, i) \/ ReadAt(t, i)
    \/ \E v \in Vals : WritePush(t, v)
    \/ WriteForEach(t)

Finish(t) ==
    \/ ReleaseLock(t) \/ ReadDrop(t) \/ MergeEnd(t)
    \/ \E k \in Keys, v \in Vals : InsertEnd(t, k, v)

Next ==
    \E t \in Tasks :
        \/ steps < MaxSteps /\ steps' = steps + 1 /\ Start(t)
           /\ UNCHANGED <<subVars, handleVars, instVars, taskVars>>
        \/ UNCHANGED <<steps, subVars, handleVars, instVars, taskVars>> /\ Finish(t)

Spec == Init /\ [][Next]_vars

(* Detached Trees and NanoDB::merge.  Every task starts with a Tree    *)
(* navigated from the store by some get/at sequence that resolves in   *)
(* Doc0; Tree methods that return Err leave the Tree as it was and are *)
(* not enumerated.                                                     *)
AllSteps == {Key(k) : k \in Keys} \cup {Index(i) : i \in Indexes}
PathsUpTo(n) == UNION {[1..m -> AllSteps] : m \in 0..n}
InitViews ==
    {Navigate(Root(Doc0), p).ret :
        p \in {q \in PathsUpTo(MaxDepth) : Navigate(Root(Doc0), q).err = "Ok"}}

MergeInit == NoInsts /\ InitFor(Tasks, Doc0, InitViews, "nav")

MergeStart(t) ==
    \/ MergeBegin(t)
    \/ \E k \in Keys : TreeRemove(view[t], k).err = "Ok" /\ ViewRemove(t, k)
    \/ \E k \in Keys, v \in MergeVals :
          TreeInsert(view[t], k, v).err = "Ok" /\ ViewInsert(t, k, v)
    \/ \E i \in Indexes : TreeRemoveAt(view[t], i).err = "Ok" /\ ViewRemoveAt(t, i)
    \/ \E v \in MergeVals : TreePush(view[t], v).err = "Ok" /\ ViewPush(t, v)
    \/ TreeForEach(view[t]).err = "Ok" /\ ViewForEach(t)

MergeNext ==
    \E t \in Tasks :
        \/ steps < MaxMergeSteps /\ steps' = steps + 1 /\ MergeStart(t)
           /\ UNCHANGED <<subVars, handleVars, instVars, taskVars>>
        \/ UNCHANGED <<steps, subVars, handleVars, instVars, taskVars>> /\ MergeEnd(t)

SpecMerge == MergeInit /\ [][MergeNext]_vars

(* Stores opened on documents of every kind (NanoDB::new_from parses   *)
(* any JSON value) and Trees taken from other stores, with any value   *)
(* and Path; update() and read() on a poisoned lock are left out.      *)
KindDocs == {Num(5), Arr(<<Num(1)>>), Obj([k \in {"a"} |-> Num(1)]), Doc0}
KindVals == {Num(7), Arr(<<>>), Obj(EmptyMap)}
KindPaths == {<<>>, <<Key("a")>>, <<Index(0)>>, <<Index(1)>>}
KindViews == {Tree(v, p) : v \in KindVals, p \in KindPaths}

KindsInit == NoInsts /\ \E d \in KindDocs, tr \in KindViews : InitFor(Tasks, d, {tr}, "other")

KindsStart(t) ==
    \/ Update(t) \/ Snapshot(t) \/ MergeBegin(t) \/ InsertBegin(t)
    \/ MergePoisoned(t) \/ InsertPoisoned(t)
    \/ \E k \in Keys, v \in Vals : WriteInsert(t, k, v)

KindsFinish(t) ==
    \/ ReleaseLock(t) \/ MergeEnd(t)
    \/ \E k \in Keys, v \in Vals : InsertEnd(t, k, v)

KindsNext ==
    \E t \in Tasks :
        \/ steps < MaxKindSteps /\ steps' = steps + 1 /\ KindsStart(t)
           /\ UNCHANGED <<subVars, handleVars, instVars, taskVars>>
        \/ UNCHANGED <<steps, subVars, handleVars, instVars, taskVars>> /\ KindsFinish(t)

SpecKinds == KindsInit /\ [][KindsNext]_vars

(* Tree::merge_from between two Trees of one task: the first task holds *)
(* a Tree navigated from the store and navigates on from it             *)
MergeFromInit == NoInsts /\ \E tr \in InitViews : InitFor(Tasks, Doc0, {tr}, "nav")

MergeFromNext ==
    /\ steps < MaxSubSteps
    /\ steps' = steps + 1
    /\ UNCHANGED <<handleVars, instVars, taskVars>>
    /\ \E t \in {1} :
          \/ ViewMergeFrom(t)
          \/ \E k \in Keys : SubGet(t, k) \/ SubRemove(t, k)
          \/ \E i \in Indexes : SubAt(t, i) \/ SubRemoveAt(t, i)
          \/ \E k \in Keys, v \in MergeVals : SubInsert(t, k, v)
          \/ \E v \in MergeVals : SubPush(t, v)
          \/ SubForEach(t)

SpecMergeFrom == MergeFromInit /\ [][MergeFromNext]_vars

(* Handles opened and cloned, and store calls through them *)
CloneInit == NoInsts /\ InitFor(Tasks, Doc0, {NoTree}, "none")

CloneTrees == {Tree(Num(7), <<Key("a"), Key("b")>>), Tree(Obj(EmptyMap), <<Key("b")>>)}

CloneNext ==
    /\ steps < MaxCloneSteps
    /\ steps' = steps + 1
    /\ UNCHANGED <<storeVars, subVars, instVars, taskVars>>
    /\ \E h \in Handles :
          \/ OpenHandle(h)
          \/ \E h2 \in Handles : CloneHandle(h, h2)
          \/ \E k \in Keys, v \in Vals : HandleInsert(h, k, v)
          \/ \E tr \in CloneTrees : HandleMerge(h, tr)

SpecClone == CloneInit /\ [][CloneNext]_vars

(* Threads that each take a Tree with NanoDB::get, change it and merge *)
(* it back: `let mut fruits = db.get("fruits")?; fruits.push(..)?;     *)
(* db.merge(fruits)?`.  Each thread pushes a value of its own, so that *)
(* the pushed elements can be told apart.                              *)
RaceTasks == {1, 2}
RaceDoc ==
    Obj([k \in {"a", "b"} |-> IF k = "a" THEN Arr(<<Num(1), Num(2), Num(3)>>)
                                         ELSE Arr(<<Num(5)>>)])
Pushed(t) == Num(10 + t)

RaceInit == NoInsts /\ InitFor(RaceTasks, RaceDoc, {NoTree}, "none")

RaceStart(t) ==
    \/ \E k \in Keys : view[t] = NoTree /\ StoreGet(t, k)
    \/ \E i \in {0, 2} : ViewAt(t, i)
    \/ ViewPush(t, Pushed(t))
    \/ ViewRemoveAt(t, 0)
    \/ MergeBegin(t)

RaceMergeEnd(t) ==
    /\ MergeEnd(t)
    /\ merged' = [merged EXCEPT ![t] = NanoDBMerge(doc, view[t]).err = "Ok"]
    /\ UNCHANGED want

RaceNext ==
    \E t \in RaceTasks :
        \/ steps < MaxRaceSteps /\ steps' = steps + 1 /\ RaceStart(t)
           /\ UNCHANGED <<subVars, handleVars, instVars, taskVars>>
        \/ UNCHANGED <<steps, subVars, handleVars, instVars>> /\ RaceMergeEnd(t)

SpecRace == RaceInit /\ [][RaceNext]_vars

(* Tasks that call update(), read(), snapshot(), insert() and merge(),  *)
(* each holding at most one guard at a time: a call waits until the     *)
(* lock admits it; a guard is used for some calls and then released or  *)
(* dropped.                                                             *)
LiveCalls == {"update", "read", "snapshot", "insert", "merge"}

(* the call is made: the task is suspended at the lock acquisition *)
LiveCall(t) ==
    /\ steps < MaxLiveSteps
    /\ steps' = steps + 1
    /\ pc[t] = "idle"
    /\ want[t] = "none"
    /\ \E op \in LiveCalls :
          /\ op = "merge" => view[t] # NoTree
          /\ want' = [want EXCEPT ![t] = op]
    /\ UNCHANGED <<storeVars, last, subVars, handleVars, instVars, merged>>

(* the lock admits the call *)
LiveAcquire(t) ==
    /\ want[t] # "none"
    /\ want' = [want EXCEPT ![t] = "none"]
    /\ \/ want[t] = "update" /\ Update(t)
       \/ want[t] = "read" /\ Read(t)
       \/ want[t] = "snapshot" /\ Snapshot(t)
       \/ want[t] = "insert" /\ InsertBegin(t)
       \/ want[t] = "merge" /\ MergeBegin(t)
    /\ UNCHANGED <<steps, subVars, handleVars, instVars, merged>>

(* calls on the guard the task holds *)
LiveWork(t) ==
    /\ steps < MaxLiveSteps
    /\ steps' = steps + 1
    /\ \/ \E v \in MergeVals : WriteInsert(t, "b", v)
       \/ ReadGet(t, "a")
    /\ UNCHANGED <<subVars, handleVars, instVars, taskVars>>

(* the guard is released or dropped, insert() and merge() return *)
LiveRelease(t) ==
    /\ \/ ReleaseLock(t)
       \/ ReadDrop(t)
       \/ MergeEnd(t)
       \/ \E v \in MergeVals : InsertEnd(t, "b", v)
    /\ UNCHANGED <<steps, subVars, handleVars, instVars, taskVars>>

LiveNext == \E t \in Tasks : LiveCall(t) \/ LiveAcquire(t) \/ LiveWork(t) \/ LiveRelease(t)

(* The lock admits a waiting call once it is free and every task gets to *)
(* run: no acquisition and no release is postponed for ever              *)
LiveFairness == \A t \in Tasks : WF_vars(LiveAcquire(t)) /\ WF_vars(LiveRelease(t))

SpecLive == Init /\ [][LiveNext]_vars /\ LiveFairness

(* One task with a write guard that narrows it, mutates through it and *)
(* inspects it with tree(), working on clones of what tree() returns   *)
InspectInit == NoInsts /\ InitFor(Tasks, Doc0, {NoTree}, "none")

InspectGuard(t) ==
    \/ Update(t) \/ WriteForEach(t)
    \/ \E k \in Keys : WriteGet(t, k) \/ WriteRemove(t, k)
    \/ \E i \in {0, 2, 999} : WriteAt(t, i)
    \/ \E k \in Keys, v \in MergeVals : WriteInsert(t, k, v)
    \/ \E v \in MergeVals : WritePush(t, v)

InspectPeek(t) ==
    \/ PeekClone(t) \/ PeekForEach(t)
    \/ \E k \in Keys : PeekGet(t, k) \/ PeekRemove(t, k)
    \/ \E i \in {0, 2, 999} : PeekAt(t, i)
    \/ \E k \in Keys, v \in MergeVals : PeekInsert(t, k, v)
    \/ \E v \in MergeVals : PeekPush(t, v)

InspectNext ==
    /\ steps < MaxInspectSteps
    /\ steps' = steps + 1
    /\ UNCHANGED <<handleVars, instVars, taskVars>>
    /\ \E t \in {1} :
          \/ InspectGuard(t) /\ UNCHANGED subVars
          \/ InspectPeek(t)

SpecInspect == InspectInit /\ [][InspectNext]_vars

(* Tree methods called by one caller on its Tree variables.  The first *)
(* variable holds a snapshot of a document of any kind; the arguments   *)
(* are the keys, the indexes 0, 2 and 999 of tests/sync.rs, a number    *)
(* and a value that does not serialize.                                 *)
ViewDocs ==
    {Doc0,
     Obj([k \in {"a", "b"} |-> IF k = "a" THEN Arr(<<Num(1), Num(2), Num(3)>>) ELSE Num(5)]),
     Arr(<<Num(1), Num(2), Num(3)>>),
     Num(5)}
ViewIndexes == {0, 2, 999}
ViewVals == {Num(7), Unserializable}

ViewInit ==
    /\ InitFor(Tasks, Doc0, {NoTree}, "none")
    /\ call = NoCall
    /\ \E d \in ViewDocs :
          /\ inst = [i \in Insts |-> IF i = 1 THEN [root |-> 1, off |-> <<>>, path |-> <<>>]
                                     ELSE NoInst]
          /\ store = [i \in Insts |-> IF i = 1 THEN d ELSE NoValue]

ViewNext ==
    /\ steps < MaxViewSteps
    /\ steps' = steps + 1
    /\ UNCHANGED <<storeVars, subVars, handleVars, last, taskVars>>
    /\ \E i \in Insts :
          \/ \E k \in Keys : InstGet(i, k) \/ InstRemove(i, k)
          \/ \E n \in ViewIndexes : InstAt(i, n) \/ InstRemoveAt(i, n)
          \/ \E k \in Keys, v \in ViewVals : InstInsert(i, k, v)
          \/ \E v \in ViewVals : InstPush(i, v)
          \/ InstForEach(i)
          \/ InstClone(i)
          \/ \E j \in Insts : InstMergeFrom(i, j)

SpecView == ViewInit /\ [][ViewNext]_vars

(* Trees taken from a document and decoded with into::<T>() *)
IntoDocs ==
    {Obj([k \in {"a"} |-> Obj([j \in {"b"} |-> Arr(<<Float(1), Float(2), Float(3)>>)])]),
     Obj([k \in {"a", "b"} |-> IF k = "a" THEN Str("Welcome!")
                                          ELSE Arr(<<Num(1), Num(2), Num(3)>>)])}

IntoInit ==
    /\ call = NoCall
    /\ \E d \in IntoDocs :
          /\ InitFor(Tasks, d, {NoTree}, "none")
          /\ \E p \in {q \in PathsUpTo(MaxDepth) : Resolves(d, q)} :
                /\ inst = [i \in Insts |-> IF i = 1 THEN [root |-> 1, off |-> <<>>, path |-> p]
                                           ELSE NoInst]
                /\ store = [i \in Insts |-> IF i = 1 THEN ValueAt(d, p) ELSE NoValue]

IntoNext ==
    /\ steps < MaxIntoSteps
    /\ steps' = steps + 1
    /\ UNCHANGED <<storeVars, subVars, handleVars, last, taskVars>>
    /\ \E i \in Insts :
          \/ \E k \in Keys : InstGet(i, k)
          \/ \E n \in ViewIndexes : InstAt(i, n)
          \/ InstClone(i)
          \/ \E T \in DecodeTypes : InstInto(i, T)

SpecInto == IntoInit /\ [][IntoNext]_vars

(* The counter tasks on {"counter": 0} *)
CounterInit == NoInsts /\ InitFor(CounterTasks, CounterDoc, {NoTree}, "none")

CounterNext ==
    /\ UNCHANGED <<steps, subVars, handleVars, instVars, taskVars>>
    /\ \E t \in CounterTasks :
          Update(t) \/ ReadCounter(t) \/ InsertCounter(t) \/ CounterDrop(t)

SpecCounter == CounterInit /\ [][CounterNext]_vars

(* ------------------------------------------------------------------ *)
(* Properties                                                         *)
(* ------------------------------------------------------------------ *)
AllDone == \A t \in DOMAIN pc : pc[t] = "done"
Holders == {t \in DOMAIN pc : pc[t] \in {"write", "blocked", "read", "merge", "insert"}}
Writers == {t \in DOMAIN pc : pc[t] \in {"write", "blocked"}}

(* task t's snapshot() or read() takes the lock and clones the document *)
Observes(t) ==
    /\ steps' = steps + 1
    /\ last' \in {Event("snapshot", t, "Ok"), Event("read", t, "Ok")}

(* task t's NanoDB::merge returns *)
MergeReturns(t) == pc[t] = "merge" /\ pc'[t] = "idle"

MutatingOps == {"winsert", "wremove", "wpush", "wforeach"}
StaleErrors == {"InvalidJSONPath", "IndexOutOfBounds"}

(* The error the walk of path over d stops with, read off the document: *)
(* the first step that Tree::get / Tree::at cannot take                 *)
FirstFailure(d, path) ==
    IF Resolves(d, path)
    THEN "Ok"
    ELSE LET n == CHOOSE i \in 1..Len(path) :
                      /\ ~Resolves(d, SubSeq(path, 1, i))
                      /\ Resolves(d, SubSeq(path, 1, i - 1))
             at == ValueAt(d, SubSeq(path, 1, n - 1))
         IN IF path[n].kind = "Index" /\ IsArray(at)
            THEN "IndexOutOfBounds"
            ELSE "InvalidJSONPath"

(* C1: no lost updates under write guards: once every counter task has  *)
(* taken update(), read "counter", inserted counter+1 and dropped its    *)
(* guard, "counter" is the initial 0 plus the number of tasks.           *)
C1_NoLostUpdates ==
    AllDone => /\ Resolves(doc, <<Key("counter")>>)
               /\ ValueAt(doc, <<Key("counter")>>) = Num(0 + NCounterTasks)

C1_Witness == AllDone /\ last.op = "release" /\ wcount = [t \in DOMAIN pc |-> 1]

(* C2: mutual exclusion: at most one write guard exists, and while one   *)
(* exists its task holds the lock, no read guard exists, no Store.merge  *)
(* or Store.insert of another task is inside the lock, and no snapshot() *)
(* or read() takes the lock.                                             *)
C2_MutualExclusion ==
    /\ [](/\ Cardinality(Writers) <= 1
          /\ \A t \in Writers : lockW = t /\ lockR = {} /\ Holders = {t})
    /\ [][\A t \in DOMAIN pc : Observes(t) => Writers = {} /\ lockW = NoTask]_vars

C2_Witness ==
    \E t \in DOMAIN pc, u \in DOMAIN pc :
        /\ t # u
        /\ pc[t] = "write"
        /\ wcount[t] >= 1
        /\ seen[u] # NoValue
        /\ last.task = t

(* C3: synchronous merge-back: when insert, remove, push or for_each on  *)
(* a write guard has returned Ok, the guard is still held and resolving  *)
(* the guard's Path in the locked document yields the guard's value.     *)
C3_SynchronousMergeBack ==
    (last.op \in MutatingOps /\ last.err = "Ok") =>
        /\ pc[last.task] = "write"
        /\ lockW = last.task
        /\ Resolves(doc, gtree[last.task].path)
        /\ ValueAt(doc, gtree[last.task].path) = gtree[last.task].inner

C3_Witness ==
    /\ last.op = "wpush"
    /\ last.err = "Ok"
    /\ Len(gtree[last.task].path) = 2
    /\ doc # stable
    /\ ValueAt(doc, gtree[last.task].path) = gtree[last.task].inner

(* C4: fail-atomic merge: a merge returns Ok exactly when every step of  *)
(* the Tree's Path resolves in the document; otherwise it returns the    *)
(* error of the first step that does not resolve and the document is     *)
(* what it was before the call.  The same holds of WriteGuardedTree's    *)
(* merge on the same document and Tree.                                  *)
C4_FailAtomicMerge ==
    [][\A t \in DOMAIN pc : MergeReturns(t) =>
          LET g == GuardMerge(doc, view[t])
          IN /\ last'.err = FirstFailure(doc, view[t].path)
             /\ last'.err # "Ok" => doc' = doc
             /\ doc' # doc => Resolves(doc, view[t].path)
             /\ g.err = last'.err
             /\ g.err # "Ok" => g.data = doc]_vars

(* a merge failed on the middle step of a Path of three steps *)
C4_Witness ==
    /\ last.op = "merge"
    /\ last.err # "Ok"
    /\ Len(view[last.task].path) = 3
    /\ Resolves(doc, SubSeq(view[last.task].path, 1, 1))
    /\ ~Resolves(doc, SubSeq(view[last.task].path, 1, 2))
    /\ doc # Doc0

(* the document changed under task t's Tree so that its Path no longer  *)
(* designates the sub-value the Tree was cloned from                    *)
Stale(t) == ~Resolves(doc, view[t].path) \/ shifted[t]

(* C5 as stated: whenever the Path of a Tree no longer designates the   *)
(* sub-value it was cloned from (a key removed, a container replaced,   *)
(* indices shifted by a removal before the recorded index), merge fails *)
(* with InvalidJSONPath or IndexOutOfBounds and writes nothing.         *)
C5_StaleNeverWrites ==
    [][\A t \in DOMAIN pc : (MergeReturns(t) /\ Stale(t)) =>
          last'.err \in StaleErrors /\ doc' = doc]_vars

(* C5, amended: merge fails with InvalidJSONPath or IndexOutOfBounds    *)
(* and writes nothing whenever the Tree's Path no longer resolves; when *)
(* elements before the recorded index were removed and the Path still   *)
(* resolves, merge returns Ok and replaces the element now at that      *)
(* index, nothing else.                                                 *)
C5_StaleResolvesOrFails ==
    [][\A t \in DOMAIN pc : MergeReturns(t) =>
          /\ ~Resolves(doc, view[t].path) =>
                last'.err \in StaleErrors /\ doc' = doc
          /\ (shifted[t] /\ Resolves(doc, view[t].path)) =>
                /\ last'.err = "Ok"
                /\ doc' = Put(doc, view[t].path, view[t].inner)]_vars

(* a Tree whose index shifted was merged with Ok over another element *)
C5_Witness ==
    /\ last.op = "merge"
    /\ last.err = "Ok"
    /\ shifted[last.task]
    /\ Len(view[last.task].path) = 3
    /\ ValueAt(doc, view[last.task].path) = view[last.task].inner
    /\ ValueAt(Doc0, view[last.task].path) = view[last.task].inner

(* the last step of task t's Path is a key that the object it was taken *)
(* from no longer has                                                   *)
KeyRemoved(t) ==
    LET p == view[t].path
        front == SubSeq(p, 1, Len(p) - 1)
    IN /\ Len(p) > 0
       /\ p[Len(p)].kind = "Key"
       /\ Resolves(Doc0, p)
       /\ Resolves(doc, front)
       /\ IsObject(ValueAt(doc, front))
       /\ p[Len(p)].val \notin DOMAIN ValueAt(doc, front).val

(* C6: stale key detection: when key k was removed from the document    *)
(* after a Tree was navigated to k, Store.merge of that Tree fails with *)
(* InvalidJSONPath and the document is unchanged.                       *)
C6_StaleKeyDetected ==
    [][\A t \in DOMAIN pc : (MergeReturns(t) /\ KeyRemoved(t)) =>
          last'.err = "InvalidJSONPath" /\ doc' = doc]_vars

C6_Witness ==
    /\ last.op = "merge"
    /\ last.err = "InvalidJSONPath"
    /\ KeyRemoved(last.task)
    /\ doc # Doc0
    /\ doc = stable

(* C7: round trip: a Tree navigated from the store by get/at, mutated   *)
(* and merged with no other change of the document in between merges    *)
(* with Ok, and navigating the same keys and indexes from the store     *)
(* afterwards yields the mutated value.                                 *)
C7_RoundTrip ==
    [][\A t \in DOMAIN pc : (MergeReturns(t) /\ phase[t] = "mut") =>
          /\ last'.err = "Ok"
          /\ Navigate(Root(doc'), view[t].path).err = "Ok"
          /\ Navigate(Root(doc'), view[t].path).ret = view[t]]_vars

C7_Witness ==
    /\ steps = 2
    /\ last.op = "merge"
    /\ last.err = "Ok"
    /\ phase[last.task] = "merged"
    /\ Len(view[last.task].path) >= 1
    /\ doc # Doc0
    /\ Navigate(Root(doc), view[last.task].path).ret = view[last.task]

(* C8: idempotent re-merge: merging again a Tree whose merge succeeded, *)
(* the Tree unchanged, succeeds and leaves the document as the first    *)
(* merge left it.                                                       *)
C8_IdempotentReMerge ==
    [][\A t \in DOMAIN pc :
          (MergeReturns(t) /\ phase[t] \in {"merged", "remerged"}) =>
              last'.err = "Ok" /\ doc' = doc]_vars

C8_Witness ==
    /\ last.op = "merge"
    /\ last.err = "Ok"
    /\ phase[last.task] = "remerged"
    /\ doc # Doc0

(* C9: visibility ordering: the document a snapshot() or read() clones  *)
(* is the first document with every successful mutation made through   *)
(* the write guards released before it applied in order.                *)
C9_VisibilityOrdering ==
    [][\A t \in DOMAIN pc : Observes(t) => seen'[t] = applied]_vars

(* a snapshot taken after a guard that made two mutations was released *)
C9_Witness ==
    \E t \in DOMAIN pc, u \in DOMAIN pc :
        /\ last = Event("snapshot", t, "Ok")
        /\ wcount[u] >= 2
        /\ pc[u] = "idle"
        /\ seen[t] = doc
        /\ seen[t] # Doc0

(* C10: no half-updated document is observed: the document a snapshot() *)
(* or read() clones is the document as it was when the write lock was   *)
(* last released, and it is cloned while no write guard is held and no  *)
(* merge is between its walk and its replacement.                       *)
C10_NoHalfUpdate ==
    [][\A t \in DOMAIN pc : Observes(t) =>
          /\ seen'[t] = stable
          /\ \A u \in DOMAIN pc : pc[u] \notin {"write", "merge", "insert"}]_vars

(* a reader holds the released document while a write guard is changing it *)
C10_Witness ==
    \E t \in DOMAIN pc, u \in DOMAIN pc :
        /\ pc[u] = "write"
        /\ wcount[u] >= 1
        /\ doc # stable
        /\ seen[t] = stable

Readers == {t \in DOMAIN pc : pc[t] = "read"}

(* C11: read stability: from read() until the read guard is destroyed,  *)
(* across its get/at calls, the guard's task holds the shared lock, no  *)
(* writer holds the lock and the document is the one read() cloned.     *)
C11_ReadStability ==
    /\ lockR = Readers
    /\ \A t \in Readers : lockW = NoTask /\ doc = seen[t]

(* a read guard narrowed twice is alive after another task changed the *)
(* document before the read() and asked for nothing since              *)
C11_Witness ==
    \E t \in Readers :
        /\ Len(gtree[t].path) = 2
        /\ last = Event("rget", t, "Ok")
        /\ doc # Doc0
        /\ doc = seen[t]

(* C12: readers coexist: whenever no writer holds the lock, read() and  *)
(* snapshot() of an idle task can take it, however many read guards are *)
(* outstanding.                                                         *)
C12_ReadersCoexist ==
    \A t \in DOMAIN pc :
        (pc[t] = "idle" /\ Holders \subseteq Readers) =>
            ENABLED Read(t) /\ ENABLED Snapshot(t)

(* two read guards are outstanding at once *)
C12_Witness ==
    /\ Cardinality(Readers) >= 2
    /\ lockR = Readers
    /\ last.op = "read"

(* The outcome of one step as the merge algorithm is specified *)
StepOutcome(cursor, p) ==
    IF p.kind = "Key"
    THEN IF ~IsObject(cursor) \/ p.val \notin DOMAIN cursor.val
         THEN "InvalidJSONPath" ELSE "Ok"
    ELSE IF ~IsArray(cursor) THEN "InvalidJSONPath"
         ELSE IF ~(p.val < Len(cursor.val)) THEN "IndexOutOfBounds"
         ELSE "Ok"

(* The steps of path that are reached in d and cannot be taken *)
FailingSteps(d, path) ==
    {n \in 1..Len(path) :
        /\ Resolves(d, SubSeq(path, 1, n - 1))
        /\ StepOutcome(ValueAt(d, SubSeq(path, 1, n - 1)), path[n]) # "Ok"}

(* C14: merge error kinds: the walk fails at a Key step with            *)
(* InvalidJSONPath when the cursor is no Object or lacks the key, at an *)
(* Index step with InvalidJSONPath when the cursor is no Array and with *)
(* IndexOutOfBounds when the index is not below the array's length; it  *)
(* returns nothing else, in NanoDB::merge and in Tree::merge_from.      *)
C14_MergeErrorKinds ==
    [][\A t \in DOMAIN pc : MergeReturns(t) =>
          LET p == view[t].path
              bad == FailingSteps(doc, p)
          IN /\ last'.err \in {"Ok"} \cup StaleErrors
             /\ (bad = {}) = (last'.err = "Ok")
             /\ \A n \in bad :
                   last'.err = StepOutcome(ValueAt(doc, SubSeq(p, 1, n - 1)), p[n])
             /\ TreeMergeFrom(Root(doc), view[t]).err = last'.err]_vars

(* a merge failed at an index step whose cursor is no array *)
C14_Witness ==
    /\ last.op = "merge"
    /\ last.err = "InvalidJSONPath"
    /\ \E n \in FailingSteps(doc, view[last.task].path) :
          /\ view[last.task].path[n].kind = "Index"
          /\ ~IsArray(ValueAt(doc, SubSeq(view[last.task].path, 1, n - 1)))

(* Every Path that resolves in d *)
RECURSIVE DocPaths(_)
DocPaths(d) ==
    {<<>>} \cup
    (IF IsObject(d)
     THEN UNION {{<<Key(k)>> \o q : q \in DocPaths(d.val[k])} : k \in DOMAIN d.val}
     ELSE IF IsArray(d)
     THEN UNION {{<<Index(i - 1)>> \o q : q \in DocPaths(d.val[i])} : i \in 1..Len(d.val)}
     ELSE {})

(* Paths that are not at or below p and do not lead to p *)
Apart(p, q) == ~IsPrefix(p, q) /\ ~IsPrefix(q, p)

(* d2 is d1 with exactly the sub-value at p replaced by v *)
ReplacedAt(d1, d2, p, v) ==
    /\ Resolves(d2, p)
    /\ ValueAt(d2, p) = v
    /\ \A q \in DocPaths(d1) :
          IF IsPrefix(p, q)
          THEN TRUE
          ELSE LET n2 == Navigate(Root(d2), q)
               IN /\ n2.err = "Ok"
                  /\ IF IsPrefix(q, p)
                     THEN n2.ret.inner.kind = ValueAt(d1, q).kind
                     ELSE n2.ret.inner = ValueAt(d1, q)
    /\ \A q \in DocPaths(d2) : ~IsPrefix(p, q) => Resolves(d1, q)

(* C15: wholesale replacement with frame: a successful merge, by        *)
(* NanoDB::merge or by the write guard's merge-back, leaves the Tree's  *)
(* value as a whole at the Tree's Path (nothing of the old sub-value    *)
(* survives) and every part of the document not at or below that Path   *)
(* as it was.                                                           *)
C15_WholesaleReplacement ==
    [][\A t \in DOMAIN pc : (MergeReturns(t) /\ last'.err = "Ok") =>
          /\ ReplacedAt(doc, doc', view[t].path, view[t].inner)
          /\ GuardMerge(doc, view[t]).err = "Ok"
          /\ GuardMerge(doc, view[t]).data = doc']_vars

(* an element of a changed array was replaced and its siblings kept the *)
(* values the earlier merge gave them                                   *)
C15_Witness ==
    /\ last.op = "merge"
    /\ last.err = "Ok"
    /\ Len(view[last.task].path) = 3
    /\ ValueAt(doc, view[last.task].path) = view[last.task].inner
    /\ \E q \in DocPaths(doc) :
          /\ Len(q) = 3
          /\ Apart(view[last.task].path, q)
          /\ ValueAt(doc, q) # ValueAt(Doc0, q)
          /\ ValueAt(doc, q) # view[last.task].inner

(* C18: Store.merge is one critical section: from taking the write lock *)
(* to returning, the merging task alone holds the lock and the document *)
(* does not change before the merge's own replacement; when merge       *)
(* returns, with Ok or with an error, the lock is free.                 *)
C18_MergeCriticalSection ==
    /\ [](\A t \in DOMAIN pc : pc[t] = "merge" => lockW = t /\ lockR = {} /\ Holders = {t})
    /\ [][\A t \in DOMAIN pc :
            /\ (pc[t] = "merge" /\ pc'[t] = "merge") => doc' = doc
            /\ MergeReturns(t) =>
                  /\ lockW' = NoTask
                  /\ last' = Event("merge", t, FirstFailure(doc, view[t].path))]_vars

(* a merge returned an error and the next merge could take the lock *)
C18_Witness ==
    \E t \in DOMAIN pc, u \in DOMAIN pc :
        /\ t # u
        /\ last = Event("merge_begin", u, "Ok")
        /\ lockW = u
        /\ phase[t] = "other"
        /\ ~Resolves(doc, view[t].path)
        /\ doc # Doc0

(* C16: empty-Path merge: merging a Tree whose Path is empty returns Ok *)
(* and makes the Tree's value the whole document, whatever the kinds of *)
(* the old document and of the value; Tree::merge_from does the same.   *)
C16_EmptyPathMerge ==
    [][\A t \in DOMAIN pc : (MergeReturns(t) /\ view[t].path = <<>>) =>
          /\ last'.err = "Ok"
          /\ doc' = view[t].inner
          /\ TreeMergeFrom(Root(doc), view[t]).err = "Ok"
          /\ TreeMergeFrom(Root(doc), view[t]).self = Root(view[t].inner)]_vars

(* an Object document, as a snapshot of it shows, was replaced by a Number *)
C16_Witness ==
    \E t \in DOMAIN pc, u \in DOMAIN pc :
        /\ steps = 2
        /\ t # u
        /\ last = Event("merge", t, "Ok")
        /\ view[t] = Tree(Num(7), <<>>)
        /\ view[u] = Root(seen[u])
        /\ seen[u].kind = "Object"
        /\ doc = Num(7)

(* task t's NanoDB::insert ends *)
InsertReturns(t) == pc[t] = "insert" /\ pc'[t] # "insert"

(* C19: Store.insert(key, value) is update().insert(key, value) followed *)
(* by the drop of the guard: the same result, the same document          *)
(* afterwards and the lock free; on a root that is no Object the result  *)
(* is NotAnObject and the document is unchanged.                         *)
C19_InsertIsGuardedInsert ==
    [][\A t \in DOMAIN pc : InsertReturns(t) =>
          /\ lockW' = NoTask
          /\ \E k \in Keys, v \in Vals :
                LET g == WriteGuardedInsert(doc, Root(doc), k, v)
                IN last'.err = g.err /\ doc' = g.data
          /\ ~IsObject(doc) => last'.err = "NotAnObject" /\ doc' = doc]_vars

(* task t's Tree::merge_from returns *)
MergeFromReturns(t) == steps' = steps + 1 /\ last'.op = "merge_from" /\ last'.task = t

(* the steps by which task t's second Tree was navigated from its first *)
RelativeSteps(t) ==
    SubSeq(subtree[t].path, Len(view[t].path) + 1, Len(subtree[t].path))

(* C17: merge_from is relative to self: for a Tree s with any Path and  *)
(* a Tree o navigated from s by get/at and then mutated, s.merge_from(o) *)
(* returns Ok, s keeps its Path and s's value is changed exactly at the  *)
(* steps o was navigated by, where it becomes o's value.                 *)
C17_MergeFromRelative ==
    [][\A t \in DOMAIN pc : (MergeFromReturns(t) /\ submut[t]) =>
          /\ last'.err = "Ok"
          /\ view'[t].path = view[t].path
          /\ ReplacedAt(view[t].inner, view'[t].inner, RelativeSteps(t), subtree[t].inner)]_vars

Opened == {h \in Handles : handles[h] # NoHandle}

(* the document handle h reads and writes *)
DocOf(h) == cells[handles[h].cell]

(* C13: handle clones alias one document: at every moment all handles   *)
(* cloned, directly or not, from one opened handle observe the same     *)
(* document, so a mutation through one of them is seen through all.     *)
C13_ClonesAlias ==
    \A h1 \in Opened, h2 \in Opened :
        handles[h1].family = handles[h2].family =>
            /\ DocOf(h1) = DocOf(h2)
            /\ \A k \in Keys : NanoDBGet(DocOf(h1), k) = NanoDBGet(DocOf(h2), k)

(* an insert through a clone is seen through the handle it was cloned from *)
C13_Witness ==
    \E h1 \in Opened, h2 \in Opened :
        /\ h1 # h2
        /\ handles[h1].family = h1
        /\ handles[h2].family = h1
        /\ last = Event("store_insert", h2, "Ok")
        /\ DocOf(h1) # Doc0
        /\ NanoDBGet(DocOf(h1), "b").err = "Ok"

Blocked == {t \in DOMAIN pc : pc[t] = "blocked"}

(* C20: a task that calls update() while its WriteGuardedTree is still  *)
(* alive never gets the second guard: it holds the exclusive lock and   *)
(* stays blocked in every later step, and its first guard is untouched. *)
C20_SelfDeadlock ==
    [][\A t \in Blocked :
          /\ lockW = t
          /\ pc'[t] = "blocked"
          /\ lockW' = t
          /\ gtree'[t] = gtree[t]]_vars

(* a task is blocked in its second update() while another task has acted since *)
C20_Witness ==
    \E t \in Blocked :
        /\ lockW = t
        /\ last.task # t
        /\ last.op # "none"

(* C21: release_lock() frees the exclusive lock early: once it has     *)
(* returned the task holds no guard, nobody holds the lock, update(),    *)
(* read() and snapshot() of the same task can complete, and the release  *)
(* leaves the document as the guard's mutations made it.                 *)
C21_ReleaseLockFrees ==
    /\ [](\A t \in DOMAIN pc : last = Event("release", t, "Ok") =>
            /\ pc[t] = "idle"
            /\ gtree[t] = NoTree
            /\ lockW = NoTask
            /\ lockR = {}
            /\ ENABLED Update(t)
            /\ ENABLED Read(t)
            /\ ENABLED Snapshot(t))
    /\ [][\A t \in DOMAIN pc : last' = Event("release", t, "Ok") =>
            /\ doc' = doc
            /\ doc' = applied']_vars

(* a guard that merged a mutation into the document has been released *)
C21_Witness ==
    \E t \in DOMAIN pc :
        /\ last = Event("release", t, "Ok")
        /\ wcount[t] > 0
        /\ doc # Doc0
        /\ lockW = NoTask

Viewers == {t \in DOMAIN pc : view[t] # NoTree}

(* C22: snapshots are detached: snapshot() returns a Tree with empty    *)
(* Path holding the document of that moment and keeps no lock; a live    *)
(* Tree never stands in the way of update() or read(); a change of the   *)
(* document changes no detached Tree, and a step that changes a detached *)
(* Tree (snapshot, get, insert) leaves the document alone.               *)
C22_SnapshotDetached ==
    /\ [](Viewers # {} =>
            /\ lockR \subseteq Readers
            /\ \A u \in DOMAIN pc : (pc[u] = "idle" /\ Holders = {}) =>
                   ENABLED Update(u) /\ ENABLED Read(u))
    /\ [][(\A t \in DOMAIN pc :
              (last' = Event("snapshot", t, "Ok") /\ steps' = steps + 1) =>
                  (/\ view'[t] = Tree(doc, <<>>)
                   /\ lockW' = lockW
                   /\ lockR' = lockR
                   /\ pc'[t] = "idle"))
           /\ ((doc' # doc) => (view' = view))
           /\ ((view' # view) => (doc' = doc))]_vars

(* a task still holds the snapshot it took and navigated or mutated,    *)
(* while the document has been changed under a write guard of another   *)
C22_Witness ==
    \E t \in Viewers, u \in Writers :
        /\ t # u
        /\ view[t] # Tree(seen[t], <<>>)
        /\ doc # seen[t]
        /\ wcount[u] > 0

Called(op) == call.op = op /\ call.recv \in Live

(* C23: Tree::get on an Object holding the key returns a Tree with the  *)
(* child's value and the receiver's Path extended by Key(key); it fails  *)
(* with KeyNotFound on an Object without the key and with NotAnObject on *)
(* any other kind; the receiver is the same after the call in all cases. *)
C23_Get ==
    Called("get") =>
        LET b == call.before
            k == call.arg.val
        IN /\ TreeOf(call.recv) = b
           /\ IF IsObject(b.inner)
              THEN IF k \in DOMAIN b.inner.val
                   THEN /\ call.err = "Ok"
                        /\ call.ret.inner = b.inner.val[k]
                        /\ call.ret.path = b.path \o <<Key(k)>>
                        /\ call.bound # 0 => TreeOf(call.bound) = call.ret
                   ELSE call.err = "KeyNotFound"
              ELSE call.err = "NotAnObject"

(* get succeeded below the root, so the new Path has two steps *)
C23_Witness ==
    /\ Called("get")
    /\ call.err = "Ok"
    /\ Len(call.ret.path) = 2
    /\ call.bound # 0

(* C24: Tree::at on an Array with index < length returns a Tree with   *)
(* the element's value and the receiver's Path extended by Index(index); *)
(* it fails with IndexOutOfBounds when index >= length and with          *)
(* NotAnArray on any other kind; on [1,2,3], at(999) fails with          *)
(* IndexOutOfBounds and at(2) yields 3.                                  *)
C24_At ==
    Called("at") =>
        LET b == call.before
            n == call.arg.val
        IN /\ TreeOf(call.recv) = b
           /\ IF IsArray(b.inner)
              THEN IF n < Len(b.inner.val)
                   THEN /\ call.err = "Ok"
                        /\ call.ret.inner = b.inner.val[n + 1]
                        /\ call.ret.path = b.path \o <<Index(n)>>
                        /\ call.bound # 0 => TreeOf(call.bound) = call.ret
                   ELSE call.err = "IndexOutOfBounds"
              ELSE call.err = "NotAnArray"
           /\ b.inner = Arr(<<Num(1), Num(2), Num(3)>>) =>
                  /\ n = 999 => call.err = "IndexOutOfBounds"
                  /\ n = 2 => call.err = "Ok" /\ call.ret.inner = Num(3)

(* at(2) on the array [1,2,3] reached by get from the document *)
C24_Witness ==
    /\ Called("at")
    /\ call.before = Tree(Arr(<<Num(1), Num(2), Num(3)>>), <<Key("a")>>)
    /\ call.arg = Index(2)
    /\ call.ret = Tree(Num(3), <<Key("a"), Index(2)>>)

(* C25: Tree::insert on an Object sets the entry key to the value, new   *)
(* or overwritten, keeps every other entry and returns the mutated Tree; *)
(* on any other kind it fails with NotAnObject and the Tree is the same. *)
(* The value is one that serializes: a value that does not makes insert  *)
(* on an Object fail with the serialization error, the Tree unchanged.   *)
C25_Insert ==
    Called("insert") =>
        LET b == call.before
            k == call.arg.key
            v == call.arg.value
            a == TreeOf(call.recv)
        IN IF IsObject(b.inner)
           THEN IF v # Unserializable
                THEN /\ call.err = "Ok"
                     /\ a.path = b.path
                     /\ IsObject(a.inner)
                     /\ DOMAIN a.inner.val = DOMAIN b.inner.val \cup {k}
                     /\ a.inner.val[k] = v
                     /\ \A x \in DOMAIN b.inner.val : x # k => a.inner.val[x] = b.inner.val[x]
                     /\ call.ret = a
                ELSE call.err = "DeserializeFromStr" /\ a = b
           ELSE call.err = "NotAnObject" /\ a = b

(* an entry that was there is overwritten, another entry is next to it *)
C25_Witness ==
    /\ Called("insert")
    /\ call.err = "Ok"
    /\ IsObject(call.before.inner)
    /\ call.arg.key \in DOMAIN call.before.inner.val
    /\ call.before.inner.val[call.arg.key] # call.arg.value
    /\ DOMAIN call.before.inner.val # {call.arg.key}

(* C26: Tree::remove on an Object holding the key removes that entry    *)
(* and no other, so that get(key) then fails with KeyNotFound; it fails   *)
(* with KeyNotFound when the key is absent and with NotAnObject when the  *)
(* value is no Object, and in both error cases the Tree is the same.      *)
C26_Remove ==
    Called("remove") =>
        LET b == call.before
            k == call.arg.val
            a == TreeOf(call.recv)
        IN IF IsObject(b.inner)
           THEN IF k \in DOMAIN b.inner.val
                THEN /\ call.err = "Ok"
                     /\ a.path = b.path
                     /\ IsObject(a.inner)
                     /\ DOMAIN a.inner.val = DOMAIN b.inner.val \ {k}
                     /\ \A x \in DOMAIN a.inner.val : a.inner.val[x] = b.inner.val[x]
                     /\ TreeGet(a, k).err = "KeyNotFound"
                     /\ call.ret = a
                ELSE call.err = "KeyNotFound" /\ a = b
           ELSE call.err = "NotAnObject" /\ a = b

(* one of two entries has been removed *)
C26_Witness ==
    /\ Called("remove")
    /\ call.err = "Ok"
    /\ DOMAIN call.before.inner.val = {"a", "b"}
    /\ DOMAIN TreeOf(call.recv).inner.val = {"b"}

(* C27: Tree::remove_at on an Array with index < length removes the      *)
(* element at index: the elements before it stay, the ones after it move  *)
(* down one position and the array is one shorter; it fails with          *)
(* IndexOutOfBounds when index >= length and with NotAnArray when the     *)
(* value is no Array, and in both error cases the Tree is the same.       *)
C27_RemoveAt ==
    Called("remove_at") =>
        LET b == call.before
            n == call.arg.val
            a == TreeOf(call.recv)
        IN IF IsArray(b.inner)
           THEN IF n < Len(b.inner.val)
                THEN /\ call.err = "Ok"
                     /\ a.path = b.path
                     /\ IsArray(a.inner)
                     /\ Len(a.inner.val) = Len(b.inner.val) - 1
                     /\ \A j \in 1..Len(a.inner.val) :
                            a.inner.val[j] = IF j <= n THEN b.inner.val[j] ELSE b.inner.val[j + 1]
                     /\ call.ret = a
                ELSE call.err = "IndexOutOfBounds" /\ a = b
           ELSE call.err = "NotAnArray" /\ a = b

(* the first of three elements has been removed: [1,2,3] is now [2,3] *)
C27_Witness ==
    /\ Called("remove_at")
    /\ call.arg = Index(0)
    /\ call.before.inner = Arr(<<Num(1), Num(2), Num(3)>>)
    /\ TreeOf(call.recv).inner = Arr(<<Num(2), Num(3)>>)

(* C28: Tree::push on an Array appends the value as the new last element *)
(* and keeps the elements before it; on a value of any other kind it      *)
(* fails with NotAnArray and the Tree is the same.                        *)
C28_Push ==
    Called("push") =>
        LET b == call.before
            a == TreeOf(call.recv)
        IN IF IsArray(b.inner)
           THEN call.arg # Unserializable =>
                    /\ call.err = "Ok"
                    /\ a.path = b.path
                    /\ a.inner = Arr(Append(b.inner.val, call.arg))
                    /\ call.ret = a
           ELSE call.err = "NotAnArray" /\ a = b

(* C29: Tree::for_each on an Array calls fn once on every element, in   *)
(* index order, so the length is kept and element i is fn of the old      *)
(* element i ([1,2,3] with +2 gives [3,4,5]); on any other kind it fails  *)
(* with NotAnArray, fn is not called and the Tree is the same.            *)
C29_ForEach ==
    Called("for_each") =>
        LET b == call.before
            a == TreeOf(call.recv)
        IN IF IsArray(b.inner)
           THEN /\ call.err = "Ok"
                /\ a.path = b.path
                /\ IsArray(a.inner)
                /\ Len(a.inner.val) = Len(b.inner.val)
                /\ call.visited = [j \in 1..Len(b.inner.val) |-> j - 1]
                /\ \A j \in 1..Len(b.inner.val) : a.inner.val[j] = Bump(b.inner.val[j])
                /\ b.inner = Arr(<<Num(1), Num(2), Num(3)>>) =>
                       a.inner = Arr(<<Num(3), Num(4), Num(5)>>)
                /\ call.ret = a
           ELSE call.err = "NotAnArray" /\ call.visited = <<>> /\ a = b

(* [1,2,3] has become [3,4,5] *)
C29_Witness ==
    /\ Called("for_each")
    /\ call.before.inner = Arr(<<Num(1), Num(2), Num(3)>>)
    /\ TreeOf(call.recv).inner = Arr(<<Num(3), Num(4), Num(5)>>)
    /\ call.visited = <<0, 1, 2>>

MutatingCalls == {"insert", "remove", "remove_at", "push", "for_each", "merge_from"}

(* C30: a mutating Tree method changes only the Tree it is called on:   *)
(* every other Tree variable in scope, whether it was obtained from the  *)
(* receiver by get/at or clone or the receiver was obtained from it,     *)
(* keeps its value and its Path; get, at and clone change no Tree.       *)
C30_MutationsLocal ==
    [][\A j \in Live :
          /\ inst'[j] # NoInst
          /\ (call'.op \in MutatingCalls /\ j # call'.recv) => TreeOf(j)' = TreeOf(j)
          /\ call'.op \notin MutatingCalls => TreeOf(j)' = TreeOf(j)]_vars

(* a Tree that has a Tree obtained from it by get/at in scope was       *)
(* mutated, and the other Tree no longer agrees with it                  *)
C30_Witness ==
    /\ call.op \in MutatingCalls
    /\ call.err = "Ok"
    /\ call.before # TreeOf(call.recv)
    /\ \E j \in Live \ {call.recv} :
          /\ IsPrefix(TreeOf(call.recv).path, TreeOf(j).path)
          /\ TreeOf(j).path # TreeOf(call.recv).path
          /\ LET rel == SubSeq(TreeOf(j).path, Len(TreeOf(call.recv).path) + 1,
                               Len(TreeOf(j).path))
             IN ~(/\ Navigate(TreeOf(call.recv), rel).err = "Ok"
                  /\ Navigate(TreeOf(call.recv), rel).ret = TreeOf(j))

GuardGetOps == {"wget", "rget"}
GuardAtOps == {"wat", "rat"}

(* the guard's tree after `self.tree = r?`, r a result of Tree::get/at *)
Narrowed(tree, r) == IF r.err = "Ok" THEN r.ret ELSE tree

PeekOps == {"tree", "peek_get", "peek_at", "peek_insert", "peek_remove", "peek_push",
            "peek_for_each"}

(* C32: tree() is inspection only: tree() and every call on a clone of  *)
(* the Tree it returns leave the locked document, the lock and the       *)
(* guard's tree and Path as they are, and a successful mutating call on  *)
(* the guard afterwards still writes the guard's value at the guard's    *)
(* own Path.                                                             *)
C32_TreeInspection ==
    [][\A t \in DOMAIN pc :
          /\ (last'.task = t /\ last'.op \in PeekOps) =>
                 /\ doc' = doc
                 /\ gtree' = gtree
                 /\ lockW' = lockW
                 /\ pc' = pc
          /\ (last'.task = t /\ last'.op \in MutatingOps /\ last'.err = "Ok") =>
                 /\ gtree'[t].path = gtree[t].path
                 /\ Resolves(doc, gtree[t].path)
                 /\ gtree[t].inner = ValueAt(doc, gtree[t].path)
                 /\ doc' = Put(doc, gtree[t].path, gtree'[t].inner)
                 /\ subtree' = subtree]_vars

(* the guard at the root has inserted after a clone of tree() was        *)
(* navigated away from the root or mutated                               *)
C32_Witness ==
    \E t \in DOMAIN pc :
        /\ last = Event("winsert", t, "Ok")
        /\ gtree[t].path = <<>>
        /\ doc = gtree[t].inner
        /\ subtree[t] # NoTree
        /\ submut[t] \/ subtree[t].path # <<>>
        /\ subtree[t].inner # ValueAt(doc, subtree[t].path)

(* C33: into::<T>() returns the decoded value when the Tree's value has  *)
(* the shape of T and fails with TypeMismatch otherwise, and changes     *)
(* neither the document nor any other Tree; the first element of         *)
(* [1.0, 2.0, 3.0] reached by get, get, at(0) fails with TypeMismatch    *)
(* into a String and decodes to 1.0 into a float.                        *)
C33_IntoTypeMismatch ==
    [][(call'.op = "into" /\ steps' = steps + 1) =>
          LET v == call'.before.inner
              T == call'.arg
          IN /\ call'.before = TreeOf(call'.recv)
             /\ call'.err \in {"Ok", "TypeMismatch"}
             /\ T = "String" => (call'.err = "Ok" <=> v.kind = "String")
             /\ T = "f64" => (call'.err = "Ok" <=> v.kind \in {"Number", "Float"})
             /\ T = "i64" => (call'.err = "Ok" <=> v.kind = "Number")
             /\ T \in VecTypes =>
                    (call'.err = "Ok" <=>
                        /\ v.kind = "Array"
                        /\ \A n \in DOMAIN v.val :
                              TreeInto(Tree(v.val[n], <<>>), ElemType(T)).err = "Ok")
             /\ T = "Map" => (call'.err = "Ok" <=> v.kind = "Object")
             /\ (call'.err = "Ok" /\ T \in ScalarTypes \cup {"Map"}) =>
                    call'.ret = [ty |-> T, val |-> v.val]
             /\ (call'.err = "Ok" /\ T \in VecTypes) =>
                    /\ call'.ret.ty = T
                    /\ DOMAIN call'.ret.val = DOMAIN v.val
                    /\ \A n \in DOMAIN v.val : call'.ret.val[n] = v.val[n].val
             /\ (v = Float(1) /\ T = "String") => call'.err = "TypeMismatch"
             /\ (v = Float(1) /\ T = "f64") => call'.ret = [ty |-> "f64", val |-> 1]
             /\ doc' = doc
             /\ \A j \in Live \ {call'.recv} : j \in Live' /\ TreeOf(j)' = TreeOf(j)]_vars

(* at(0) of the array of floats under "a"."b" was decoded into a String *)
C33_Witness ==
    /\ call.op = "into"
    /\ call.arg = "String"
    /\ call.err = "TypeMismatch"
    /\ call.before = Tree(Float(1), <<Key("a"), Key("b"), Index(0)>>)
    /\ Live # {}

PathKeepingCalls == {"insert", "remove", "remove_at", "push", "for_each", "merge_from"}

(* C34: Paths grow only by appending: the Tree returned by get/at has    *)
(* the receiver's Path plus exactly one step at the end, no call removes *)
(* or rewrites a step of the Path of any Tree, insert, remove,           *)
(* remove_at, push, for_each and merge_from leave the Path of their      *)
(* receiver as it was, and a clone has an equal Path of its own.         *)
C34_PathsAppendOnly ==
    [][(steps' = steps + 1 /\ call'.op # "none") =>
          /\ \A j \in Live : j \in Live' /\ inst'[j].path = inst[j].path
          /\ call'.before.path = inst[call'.recv].path
          /\ (call'.op \in {"get", "at"} /\ call'.err = "Ok") =>
                 /\ call'.ret.path = Append(inst[call'.recv].path, call'.arg)
                 /\ call'.bound # 0 =>
                        /\ call'.bound \notin Live
                        /\ inst'[call'.bound].path = call'.ret.path
          /\ call'.op \in PathKeepingCalls =>
                 /\ inst'[call'.recv].path = call'.before.path
                 /\ call'.err = "Ok" => call'.ret.path = call'.before.path
                 /\ Live' = Live
          /\ call'.op = "clone" =>
                 /\ call'.bound \notin Live
                 /\ inst'[call'.bound].path = inst[call'.recv].path
                 /\ inst'[call'.bound].root # inst'[call'.recv].root]_vars

(* a Tree two steps down was mutated with success while the Tree it was  *)
(* taken from is still held                                              *)
C34_Witness ==
    /\ call.op \in PathKeepingCalls
    /\ call.err = "Ok"
    /\ Len(inst[call.recv].path) = 2
    /\ inst[call.recv].path = call.before.path
    /\ \E j \in Live : Len(inst[j].path) = 1

(* C35: while a WriteGuardedTree is held, after any calls of its get,    *)
(* at, insert, remove, push and for_each, failed or not, the guard's     *)
(* Path resolves in the locked document and the value there is the       *)
(* guard's tree value; so the merge inside a mutating call never fails   *)
(* with InvalidJSONPath or IndexOutOfBounds.                             *)
C35_GuardCoherent ==
    /\ [](\A t \in Writers :
             /\ lockW = t
             /\ Resolves(doc, gtree[t].path)
             /\ ValueAt(doc, gtree[t].path) = gtree[t].inner
             /\ \A k \in Keys, v \in Vals :
                   /\ TreeInsert(gtree[t], k, v).err = "Ok" =>
                          GuardMerge(doc, TreeInsert(gtree[t], k, v).ret).err = "Ok"
                   /\ TreeRemove(gtree[t], k).err = "Ok" =>
                          GuardMerge(doc, TreeRemove(gtree[t], k).ret).err = "Ok"
                   /\ TreePush(gtree[t], v).err = "Ok" =>
                          GuardMerge(doc, TreePush(gtree[t], v).ret).err = "Ok"
                   /\ TreeForEach(gtree[t]).err = "Ok" =>
                          GuardMerge(doc, TreeForEach(gtree[t]).ret).err = "Ok")
    /\ [][(last'.op \in MutatingOps /\ steps' = steps + 1) =>
             last'.err \notin StaleErrors]_vars

(* a guard narrowed two steps down has pushed after an earlier call on   *)
(* it, and the document holds the guard's array at the guard's Path      *)
C35_Witness ==
    \E t \in Writers :
        /\ last = Event("wpush", t, "Ok")
        /\ Len(gtree[t].path) = 2
        /\ ValueAt(doc, gtree[t].path) = gtree[t].inner
        /\ doc # Doc0

GuardCallErrors == {"KeyNotFound", "IndexOutOfBounds", "NotAnObject", "NotAnArray"}

C37_LastWriterWins ==
    [][\A t \in DOMAIN pc :
          MergeReturns(t) =>
              /\ last'.op = "merge" /\ last'.task = t
              /\ last'.err = "Ok" <=> Resolves(doc, view[t].path)
              /\ last'.err = "Ok" =>
                     /\ Resolves(doc', view[t].path)
                     /\ ValueAt(doc', view[t].path) = view[t].inner
                     /\ \A q \in DocPaths(doc) :
                           Apart(q, view[t].path) =>
                               Resolves(doc', q) /\ ValueAt(doc', q) = ValueAt(doc, q)
              /\ last'.err # "Ok" => doc' = doc
              /\ lockW' = NoTask]_vars

(* two threads took a Tree of the array under "a", each pushed its        *)
(* element and each merge returned Ok: the array holds only the element   *)
(* of the thread that merged last                                        *)
C37_Witness ==
    \E t \in DOMAIN pc, u \in DOMAIN pc :
        /\ t # u
        /\ merged[t] /\ merged[u]
        /\ last = Event("merge", u, "Ok")
        /\ view[t] = Tree(Arr(<<Num(1), Num(2), Num(3), Pushed(t)>>), <<Key("a")>>)
        /\ view[u] = Tree(Arr(<<Num(1), Num(2), Num(3), Pushed(u)>>), <<Key("a")>>)
        /\ ValueAt(doc, <<Key("a")>>) = Arr(<<Num(1), Num(2), Num(3), Pushed(u)>>)

(* C38: for two Trees whose Paths resolve in the document and diverge at *)
(* some step (neither Path is a prefix of the other), NanoDB::merge of   *)
(* the one and then the other returns Ok in both orders and gives the    *)
(* same document, in which each Path holds the value of its own Tree.    *)
C38_DisjointMergesCommute ==
    \A t \in DOMAIN pc, u \in DOMAIN pc :
        (/\ t # u
         /\ view[t] # NoTree /\ view[u] # NoTree
         /\ Resolves(doc, view[t].path) /\ Resolves(doc, view[u].path)
         /\ Apart(view[t].path, view[u].path)) =>
            LET tFirst == NanoDBMerge(doc, view[t])
                tThenU == NanoDBMerge(tFirst.data, view[u])
                uFirst == NanoDBMerge(doc, view[u])
                uThenT == NanoDBMerge(uFirst.data, view[t])
            IN /\ tFirst.err = "Ok" /\ tThenU.err = "Ok"
               /\ uFirst.err = "Ok" /\ uThenT.err = "Ok"
               /\ tThenU.data = uThenT.data
               /\ Resolves(tThenU.data, view[t].path)
               /\ ValueAt(tThenU.data, view[t].path) = view[t].inner
               /\ Resolves(tThenU.data, view[u].path)
               /\ ValueAt(tThenU.data, view[u].path) = view[u].inner

(* one thread pushed to the array under "a", the other to the array      *)
(* under "b", both merged: the document is the first document with both  *)
(* merges made in either order                                           *)
C38_Witness ==
    \E t \in DOMAIN pc, u \in DOMAIN pc :
        /\ view[t] = Tree(Arr(<<Num(1), Num(2), Num(3), Pushed(t)>>), <<Key("a")>>)
        /\ view[u] = Tree(Arr(<<Num(5), Pushed(u)>>), <<Key("b")>>)
        /\ merged[t] /\ merged[u]
        /\ pc[t] = "idle" /\ pc[u] = "idle"
        /\ doc = NanoDBMerge(NanoDBMerge(RaceDoc, view[t]).data, view[u]).data
        /\ doc = NanoDBMerge(NanoDBMerge(RaceDoc, view[u]).data, view[t]).data
        /\ ValueAt(doc, <<Key("a")>>) = view[t].inner
        /\ ValueAt(doc, <<Key("b")>>) = view[u].inner

(* Paths that resolve in d, and those that fail at their last step *)
PathsAround(d) == DocPaths(d) \cup {Append(q, st) : q \in DocPaths(d), st \in AllSteps}

Quiescent ==
    /\ \A t \in DOMAIN pc : pc[t] = "idle" /\ want[t] = "none"
    /\ lockW = NoTask
    /\ lockR = {}

(* C40: when every task holds at most one guard at a time and releases   *)
(* or drops it after finitely many steps, every pending update(),        *)
(* read(), snapshot(), insert() and merge() eventually acquires the      *)
(* lock, and the run ends with all tasks finished and the lock free.     *)
C40_Progress ==
    /\ \A t \in Tasks : (want[t] \in LiveCalls) ~> (want[t] = "none")
    /\ <>[]Quiescent

(* a task's snapshot() was admitted, the other task then acquired the    *)
(* shared lock with read(), and the first task's merge() now waits for it *)
C40_Witness ==
    \E t \in DOMAIN pc, u \in DOMAIN pc :
        /\ t # u
        /\ seen[t] # NoValue
        /\ view[t] = Tree(doc, <<>>)
        /\ pc[t] = "idle"
        /\ want[t] = "merge"
        /\ pc[u] = "read"
        /\ lockR = {u}
        /\ lockW = NoTask
        /\ ~ENABLED LiveAcquire(t)

====
